---------------------------- MODULE Spec2Model ----------------------------
(***************************************************************************)
(* Verification model of cube-card-tracker: the column/row title-strip     *)
(* detection pipeline (backend/app/services/detection_service.py), the     *)
(* card-name catalog and fuzzy resolver (card_db_service.py) and the       *)
(* check-in API that drives them (api/checkin.py).                         *)
(*                                                                         *)
(* Each component has its own specification (SpecPrune, SpecNms,           *)
(* SpecDetect, SpecResolver, SpecApi).  All variables are declared once;   *)
(* a specification keeps the variables of the other components at their    *)
(* idle values.                                                            *)
(*                                                                         *)
(* Numbers that are floats in the code are kept exact: a comparison        *)
(* against typical_gap * 1.55 is done on integers scaled by 40, and the    *)
(* places where IEEE-754 double rounding changes the outcome are modelled  *)
(* explicitly (see Lt055).                                                 *)
(***************************************************************************)
EXTENDS Integers, Sequences, FiniteSets, TLC

VARIABLES
    \* ---- Peak Pruner (DetectionService._prune_peaks) ----
    pk_in,      \* the ascending peak list handed to _prune_peaks
    pk_out,     \* the list it returned
    pk_pc,      \* "ready" before the call, "done" after it, "off" when unused
    \* ---- Overlap Suppressor (DetectionService._nms) ----
    nms_in,     \* the list of boxes <<x, y, w, h>> handed to _nms
    nms_thr,    \* iou_thresh as the fraction <<numerator, denominator>>
    nms_out,    \* the list it returned
    nms_pc,     \* "ready", "done" or "off"
    \* ---- detect_cards (DetectionService.detect_cards) ----
    det_cfg,    \* the DetectionConfig of the service
    det_img,    \* the image as the libraries see it: [w, h, seps, cols]
    det_log,    \* per column region: the gate that ended it and its strip height
    det_boxes,  \* the list of boxes detect_cards returned
    det_pc,     \* "ready", "done" or "off"
    \* ---- the process and its disk ----
    db_folder,  \* the card DB folder on disk: [exists, files]
    rapidfuzz,  \* RAPIDFUZZ_AVAILABLE: the import at module load succeeded
    \* ---- one CardDatabaseService shared by the threads of the process ----
    rs_names,   \* self._card_names
    rs_loaded,  \* self._loaded
    rs_pc,      \* per thread: "idle", "loading" (inside _load) or "mark"
    rs_loads,   \* how many times the body of _load has been entered
    rs_last,    \* the last fuzzy_match / search call and its answer
    \* ---- the check-in API (api/checkin.py) and its database ----
    api_cube,   \* the Cube row of the session
    api_cards,  \* the Card rows of the cube, in insertion order
    api_images, \* the files saved in UPLOAD_FOLDER: is each a readable image
    api_next,   \* the id the next inserted Card row gets
    api_builds, \* how many CardDatabaseService catalogs the process has built
    api_reqs,   \* how many requests have been handled
    api_resp,   \* the last request and its response
    \* ---- process_image (CubeCheckinService.process_image) ----
    pi_in,      \* the call: the image file, the detected boxes, the faults
    pi_out,     \* what it returned: [raised, cards]
    pi_pc,      \* "ready", "done" or "off"
    \* ---- the configuration (cube_card_tracker: AppConfig, ConfigManager) ----
    cm_config,  \* ConfigManager.config, the AppConfig in memory
    cm_file,    \* the configuration file on disk
    cm_saved,   \* the AppConfig handed to the last save that wrote the file
    cm_last,    \* the last operation and its outcome
    \* ---- the tracker (cube_card_tracker: CubeCardTracker) ----
    tr_engine   \* self.engine.database_path; <<>> while there is no tracker

prune_vars == <<pk_in, pk_out, pk_pc>>
nms_vars   == <<nms_in, nms_thr, nms_out, nms_pc>>
det_vars   == <<det_cfg, det_img, det_log, det_boxes, det_pc>>
env_vars   == <<db_folder, rapidfuzz>>
rs_vars    == <<rs_names, rs_loaded, rs_pc, rs_loads, rs_last>>

api_vars   == <<api_cube, api_cards, api_images, api_next, api_builds, api_reqs,
                api_resp>>

proc_vars  == <<pi_in, pi_out, pi_pc>>
cm_vars    == <<cm_config, cm_file, cm_saved, cm_last, tr_engine>>

vars == <<prune_vars, nms_vars, det_vars, env_vars, rs_vars, api_vars, proc_vars,
          cm_vars>>

(***************************************************************************)
(* The values a component's variables keep in the specifications of the    *)
(* other components.                                                       *)
(***************************************************************************)
PruneIdle == pk_in = <<>> /\ pk_out = <<>> /\ pk_pc = "off"
NmsIdle   == nms_in = <<>> /\ nms_thr = <<2, 5>> /\ nms_out = <<>> /\ nms_pc = "off"
DetIdle   ==
    /\ det_cfg = <<>>
    /\ det_img = <<>>
    /\ det_log = <<>>
    /\ det_boxes = <<>>
    /\ det_pc = "off"
EnvIdle   == db_folder = [exists |-> FALSE, files |-> <<>>] /\ rapidfuzz = TRUE
RsIdle    ==
    /\ rs_names = <<>>
    /\ rs_loaded = FALSE
    /\ rs_pc = <<>>
    /\ rs_loads = 0
    /\ rs_last = <<>>
None      == <<"None">>
NewCube   ==
    [status |-> "PENDING_CHECKIN", source_image_path |-> 0,
     annotated_image_path |-> 0, total_cards |-> 0, cards_confirmed |-> 0]
ApiIdle   ==
    /\ api_cube = NewCube
    /\ api_cards = <<>>
    /\ api_images = <<>>
    /\ api_next = 1
    /\ api_builds = 0
    /\ api_reqs = 0
    /\ api_resp = [op |-> "none", code |-> 0, error |-> ""]
ProcIdle  == pi_in = <<>> /\ pi_out = <<>> /\ pi_pc = "off"
CmIdle ==
    /\ cm_config = <<>>
    /\ cm_file = <<>>
    /\ cm_saved = <<>>
    /\ cm_last = <<>>
    /\ tr_engine = <<>>

(***************************************************************************)
(* Generic helpers on sequences of integers.                               *)
(***************************************************************************)
Range(s) == {s[i] : i \in 1..Len(s)}

RECURSIVE SumSeq(_)
SumSeq(s) == IF s = <<>> THEN 0 ELSE s[1] + SumSeq(Tail(s))

\* Insert v into the ascending sequence s, after the elements equal to it.
RECURSIVE InsertAsc(_, _)
InsertAsc(s, v) ==
    IF s = <<>> THEN <<v>>
    ELSE IF v < s[1] THEN <<v>> \o s
    ELSE <<s[1]>> \o InsertAsc(Tail(s), v)

RECURSIVE SortAsc(_)
SortAsc(s) == IF s = <<>> THEN <<>> ELSE InsertAsc(SortAsc(Tail(s)), s[1])

\* s is strictly ascending
IsAscending(s) == \A i \in 1..(Len(s) - 1) : s[i] < s[i + 1]

\* sub is obtained from s by deleting elements (order kept), decided greedily.
RECURSIVE IsSubsequence(_, _)
IsSubsequence(sub, s) ==
    IF sub = <<>> THEN TRUE
    ELSE IF s = <<>> THEN FALSE
    ELSE IF sub[1] = s[1] THEN IsSubsequence(Tail(sub), Tail(s))
    ELSE IsSubsequence(sub, Tail(s))

\* largest power of two that is <= n, for n >= 1
RECURSIVE Pow2Floor(_)
Pow2Floor(n) == IF n < 2 THEN 1 ELSE 2 * Pow2Floor(n \div 2)

(***************************************************************************)
(* Peak Pruner: detection_service.py, _prune_peaks.                        *)
(***************************************************************************)

\* np.diff(peaks): the gaps between consecutive peaks.
Diff(peaks) == [i \in 1..(Len(peaks) - 1) |-> peaks[i + 1] - peaks[i]]

\* np.percentile(gaps, 75), default linear interpolation, times 4 (exact):
\* virtual index 0.75 * (n - 1) into the sorted gaps.
Percentile75x4(gaps) ==
    LET s    == SortAsc(gaps)
        pos3 == 3 * (Len(gaps) - 1)
        lo   == pos3 \div 4
        r    == pos3 % 4
    IN  IF r = 0 THEN 4 * s[lo + 1]
        ELSE 4 * s[lo + 1] + r * (s[lo + 2] - s[lo + 1])

\* np.median(xs) times 2 (exact), xs non-empty.
Median2(xs) ==
    LET s == SortAsc(xs)
        n == Len(xs)
    IN  IF n % 2 = 1 THEN 2 * s[(n + 1) \div 2]
        ELSE s[n \div 2] + s[n \div 2 + 1]

\* core = gaps[gaps <= q75]
CoreGaps(gaps) ==
    LET q == Percentile75x4(gaps)
    IN  SelectSeq(gaps, LAMBDA g : 4 * g <= q)

\* A mutant of TypicalGap2: the median of all the gaps, nothing trimmed.
TypicalGap2_untrimmed(peaks) == Median2(Diff(peaks))

\* median_gap (times 2) of lines 320-324, for Len(peaks) >= 3.
TypicalGap2(peaks) ==
    LET gaps == Diff(peaks)
        core == CoreGaps(gaps)
    IN  IF Len(core) > 0 THEN Median2(core) ELSE Median2(gaps)

\* gap > median_gap * 1.55, with median_gap = m2 / 2.  The double product
\* agrees with the exact one on every integer gap and half-integer median.
Gt155(gap, m2) == 40 * gap > 31 * m2

\* gap < median_gap * 0.55, with median_gap = m2 / 2.  The double 0.55 lies
\* above 0.55, and where the exact product is the integer gap itself the
\* double product rounds up to the next double exactly when the significand
\* of gap exceeds 1.375 (first at median_gap = 100, gap = 55).
Lt055(gap, m2) ==
    \/ 40 * gap < 11 * m2
    \/ /\ 40 * gap = 11 * m2
       /\ 8 * gap > 11 * Pow2Floor(gap)

\* A mutant of PruneWalk: an over-large gap skips the peak and the walk goes on.
RECURSIVE PruneWalk_resume(_, _, _, _)
PruneWalk_resume(peaks, i, m2, result) ==
    IF i > Len(peaks) THEN result
    ELSE LET gap == peaks[i] - peaks[i - 1]
         IN  IF Gt155(gap, m2) THEN PruneWalk_resume(peaks, i + 1, m2, result)
             ELSE IF Lt055(gap, m2) THEN PruneWalk_resume(peaks, i + 1, m2, result)
             ELSE PruneWalk_resume(peaks, i + 1, m2, Append(result, peaks[i]))

\* The loop of lines 327-333 from (1-based) position i on; result is the list
\* kept so far.  The gap is taken from the previous input peak.
RECURSIVE PruneWalk(_, _, _, _)
PruneWalk(peaks, i, m2, result) ==
    IF i > Len(peaks) THEN result
    ELSE LET gap == peaks[i] - peaks[i - 1]
         IN  IF Gt155(gap, m2) THEN result
             ELSE IF Lt055(gap, m2) THEN PruneWalk(peaks, i + 1, m2, result)
             ELSE PruneWalk(peaks, i + 1, m2, Append(result, peaks[i]))

\* A mutant of _prune_peaks: the walk starts from an empty result.
_prune_peaks_drop_first(peaks) ==
    IF Len(peaks) < 3 THEN peaks
    ELSE PruneWalk(peaks, 2, TypicalGap2(peaks), <<>>)

_prune_peaks(peaks) ==
    IF Len(peaks) < 3 THEN peaks
    ELSE PruneWalk(peaks, 2, TypicalGap2(peaks), <<peaks[1]>>)

(***************************************************************************)
(* SpecPrune: _prune_peaks applied to bounded ascending peak lists.        *)
(***************************************************************************)
MaxPeaks == 5      \* longest peak list of the general generator
MaxGap   == 5      \* gaps 1..MaxGap in the general generator
MaxEven  == 10     \* most evenly spaced peaks in the even-column generator
MaxTrail == 90     \* largest trailing gap in the even-column generator

\* Gaps at which 0.55 * median is an integer in pixels (55 = 0.55 * 100).
PixelGaps == {55, 100}
GapVals   == (1..MaxGap) \cup PixelGaps
\* Even-column spacings: small ones and the pixel spacings 20 and 40.
EvenGaps  == (1..MaxGap) \cup {20, 40}

\* The peak list starting at p0 whose gaps are gs.
RECURSIVE PeaksFrom(_, _)
PeaksFrom(p0, gs) ==
    IF gs = <<>> THEN <<p0>>
    ELSE <<p0>> \o PeaksFrom(p0 + gs[1], Tail(gs))

GapLists == UNION {[1..n -> GapVals] : n \in 0..(MaxPeaks - 1)}

\* n evenly spaced peaks (gap g) followed by one peak a gap G further.
EvenColumn(n, g, G) == PeaksFrom(1, [i \in 1..n |-> IF i < n THEN g ELSE G])

InitPrune ==
    /\ NmsIdle
    /\ DetIdle
    /\ EnvIdle
    /\ RsIdle
    /\ ApiIdle
    /\ ProcIdle
    /\ CmIdle
    /\ pk_out = <<>>
    /\ pk_pc = "ready"
    /\ \/ pk_in = <<>>
       \/ \E p0 \in 1..2 : \E gs \in GapLists : pk_in = PeaksFrom(p0, gs)
       \/ \E n \in 2..MaxEven : \E g \in EvenGaps : \E G \in 1..MaxTrail :
              pk_in = EvenColumn(n, g, G)

\* _find_title_peaks, line 303: the sorted peaks go through _prune_peaks.
Prune ==
    /\ pk_pc = "ready"
    /\ pk_out' = _prune_peaks(pk_in)
    /\ pk_pc' = "done"
    /\ UNCHANGED <<pk_in, nms_vars, det_vars, env_vars, rs_vars, api_vars, proc_vars, cm_vars>>

NextPrune == Prune

SpecPrune == InitPrune /\ [][NextPrune]_vars

(***************************************************************************)
(* Claims about the Peak Pruner, checked under SpecPrune.                  *)
(***************************************************************************)

\* C1: for every ascending peak list, _prune_peaks returns an order-preserving
\* subsequence of its input (no reordering, no new value, never longer); with
\* at least 3 input peaks the first input peak is the first output peak, and
\* with fewer than 3 the input is returned unchanged.
C1_PruneIsSubsequence ==
    pk_pc = "done" =>
        /\ IsSubsequence(pk_out, pk_in)
        /\ Range(pk_out) \subseteq Range(pk_in)
        /\ IsAscending(pk_out)
        /\ Len(pk_out) <= Len(pk_in)
        /\ (Len(pk_in) >= 3 => Len(pk_out) >= 1 /\ pk_out[1] = pk_in[1])
        /\ (Len(pk_in) < 3 => pk_out = pk_in)

\* A run in which the pruner dropped peaks of a list of 4 or more and kept
\* at least two.
C1_Witness ==
    /\ pk_pc = "done"
    /\ Len(pk_in) >= 4
    /\ Len(pk_out) >= 2
    /\ Len(pk_out) < Len(pk_in)

\* The gap before input peak i exceeds 1.55 x typical_gap (exact arithmetic:
\* gap > 1.55 * m2 / 2  <=>  40 * gap > 31 * m2).
OverLargeGapAt(peaks, i) ==
    40 * (peaks[i] - peaks[i - 1]) > 31 * TypicalGap2(peaks)

\* C2: the pruner never keeps a peak past the first over-large gap: if the gap
\* before input peak i exceeds 1.55 x typical_gap (the median of the gaps at or
\* below the 75th percentile), no input peak with index >= i is in the output.
C2_NothingKeptPastOverLargeGap ==
    (pk_pc = "done" /\ Len(pk_in) >= 3) =>
        \A i \in 2..Len(pk_in) :
            OverLargeGapAt(pk_in, i) =>
                \A j \in i..Len(pk_in) : pk_in[j] \notin Range(pk_out)

\* A run with an over-large gap in the middle of the list, followed by a peak
\* at an ordinary gap that a resumed walk would have kept.
C2_Witness ==
    /\ pk_pc = "done"
    /\ Len(pk_in) >= 4
    /\ \E i \in 3..(Len(pk_in) - 1) :
          /\ OverLargeGapAt(pk_in, i)
          /\ ~OverLargeGapAt(pk_in, i + 1)
          /\ 2 * (pk_in[i + 1] - pk_in[i]) >= TypicalGap2(pk_in)
          /\ pk_out = SubSeq(pk_in, 1, i - 1)

\* peaks is n >= 2 evenly spaced peaks followed by one trailing peak whose gap
\* exceeds 1.55 x the even gap (20 * G > 31 * g).
IsEvenColumnWithTrail(peaks) ==
    LET n == Len(peaks) - 1
    IN  /\ n >= 2
        /\ \A i \in 1..(n - 1) : peaks[i + 1] - peaks[i] = peaks[2] - peaks[1]
        /\ 20 * (peaks[n + 1] - peaks[n]) > 31 * (peaks[2] - peaks[1])

\* C3: for n >= 2 evenly spaced peaks with gap g followed by one trailing peak
\* whose gap exceeds 1.55 x g, the pruner returns exactly the n evenly spaced
\* peaks, in order, and discards the trailing peak.
C3_EvenColumnDropsTrailingPeak ==
    (pk_pc = "done" /\ IsEvenColumnWithTrail(pk_in)) =>
        pk_out = SubSeq(pk_in, 1, Len(pk_in) - 1)

\* The scenario of the specification: 10 peaks 40 px apart, an 11th 90 px on.
C3_Witness ==
    /\ pk_pc = "done"
    /\ pk_in = EvenColumn(10, 40, 90)
    /\ Len(pk_out) = 10
    /\ pk_out[10] = 361

(***************************************************************************)
(* Overlap Suppressor: detection_service.py, _nms.                         *)
(* A box is <<x, y, w, h>>; iou_thresh is the fraction thr[1] / thr[2].    *)
(***************************************************************************)
Max2(a, b) == IF a >= b THEN a ELSE b
Min2(a, b) == IF a <= b THEN a ELSE b

BoxArea(b) == b[3] * b[4]

\* The positions 1..Len(boxes) ordered as sorted(range(len(boxes)), key=area,
\* reverse=True) orders them: area descending, equal areas in input order
\* (Python's sort is stable, also with reverse=True).
\* A mutant of InsertByArea: of two boxes of equal area the later one first.
RECURSIVE InsertByArea_later_first(_, _, _)
InsertByArea_later_first(order, i, boxes) ==
    IF order = <<>> THEN <<i>>
    ELSE IF BoxArea(boxes[i]) >= BoxArea(boxes[order[1]]) THEN <<i>> \o order
    ELSE <<order[1]>> \o InsertByArea_later_first(Tail(order), i, boxes)

RECURSIVE InsertByArea(_, _, _)
InsertByArea(order, i, boxes) ==
    IF order = <<>> THEN <<i>>
    ELSE IF BoxArea(boxes[i]) > BoxArea(boxes[order[1]]) THEN <<i>> \o order
    ELSE <<order[1]>> \o InsertByArea(Tail(order), i, boxes)

RECURSIVE AreaOrderUpTo(_, _)
AreaOrderUpTo(boxes, n) ==
    IF n = 0 THEN <<>>
    ELSE InsertByArea(AreaOrderUpTo(boxes, n - 1), n, boxes)

AreaOrder(boxes) == AreaOrderUpTo(boxes, Len(boxes))

\* Lines 351-356: the intersection rectangle of two boxes and its area.
InterArea(b1, b2) ==
    LET ix1 == Max2(b1[1], b2[1])
        iy1 == Max2(b1[2], b2[2])
        ix2 == Min2(b1[1] + b1[3], b2[1] + b2[3])
        iy2 == Min2(b1[2] + b1[4], b2[2] + b2[4])
    IN  IF ix2 <= ix1 \/ iy2 <= iy1 THEN 0 ELSE (ix2 - ix1) * (iy2 - iy1)

\* A mutant of Suppresses: a box is suppressed only above the threshold.
Suppresses_strict(b1, b2, thr) ==
    LET inter == InterArea(b1, b2)
        union == BoxArea(b1) + BoxArea(b2) - inter
    IN  /\ inter > 0
        /\ union > 0
        /\ inter * thr[2] > thr[1] * union

\* Lines 353-358: kept box b1 suppresses b2 (inter / union >= iou_thresh; the
\* double quotient compares with the double threshold as the exact fractions).
Suppresses(b1, b2, thr) ==
    LET inter == InterArea(b1, b2)
        union == BoxArea(b1) + BoxArea(b2) - inter
    IN  /\ inter > 0
        /\ union > 0
        /\ inter * thr[2] >= thr[1] * union

\* The outer loop of lines 342-358 from position k of order on: kept is the
\* list of kept positions, suppressed the set of suppressed ones.
RECURSIVE NmsLoop(_, _, _, _, _, _)
NmsLoop(boxes, thr, order, k, kept, suppressed) ==
    IF k > Len(order) THEN kept
    ELSE LET i == order[k]
         IN  IF i \in suppressed
             THEN NmsLoop(boxes, thr, order, k + 1, kept, suppressed)
             ELSE NmsLoop(boxes, thr, order, k + 1, Append(kept, i),
                          suppressed \cup
                              {j \in (1..Len(boxes)) \ (suppressed \cup {i}) :
                                   Suppresses(boxes[i], boxes[j], thr)})

\* The positions _nms keeps, in the order it keeps them.
NmsKept(boxes, thr) == NmsLoop(boxes, thr, AreaOrder(boxes), 1, <<>>, {})

_nms(boxes, thr) ==
    IF boxes = <<>> THEN <<>>
    ELSE LET kept == NmsKept(boxes, thr)
         IN  [k \in 1..Len(kept) |-> boxes[kept[k]]]

(***************************************************************************)
(* SpecNms: _nms applied to bounded lists of boxes.                        *)
(***************************************************************************)
MaxBoxes == 3      \* longest list of boxes

\* two wide boxes of equal area overlap by half (IoU 1/2)
NmsBoxes ==
    ({0, 1} \X {0, 1} \X {1, 2} \X {1, 2})
        \cup {<<0, 0, 0, 2>>, <<0, 0, 3, 2>>, <<1, 0, 3, 2>>}
\* the configured 0.40 and, to reach a pair exactly at the threshold, 0.50
NmsThresholds == {<<2, 5>>, <<1, 2>>}

InitNms ==
    /\ PruneIdle
    /\ DetIdle
    /\ EnvIdle
    /\ RsIdle
    /\ ApiIdle
    /\ ProcIdle
    /\ CmIdle
    /\ nms_in \in UNION {[1..n -> NmsBoxes] : n \in 0..MaxBoxes}
    /\ nms_thr \in NmsThresholds
    /\ nms_out = <<>>
    /\ nms_pc = "ready"

\* detect_cards, line 267: all_boxes = self._nms(all_boxes, nms_iou_threshold)
Nms ==
    /\ nms_pc = "ready"
    /\ nms_out' = _nms(nms_in, nms_thr)
    /\ nms_pc' = "done"
    /\ UNCHANGED <<nms_in, nms_thr, prune_vars, det_vars, env_vars, rs_vars, api_vars, proc_vars, cm_vars>>

NextNms == Nms

SpecNms == InitNms /\ [][NextNms]_vars

\* How often box b occurs in the list s.
CountOf(b, s) == Cardinality({i \in 1..Len(s) : s[i] = b})

\* IoU(b1, b2) < thr, with the IoU of two boxes that do not intersect 0.
IoUBelow(b1, b2, thr) ==
    LET inter == InterArea(b1, b2)
        union == BoxArea(b1) + BoxArea(b2) - inter
    IN  inter = 0 \/ inter * thr[2] < thr[1] * union

\* C5: every box in the output of _nms is one of the input boxes, no box
\* occurs more often than in the input, and every two distinct output boxes
\* have intersection-over-union strictly below the threshold.
C5_NmsOutputFromInputAndPairwiseBelow ==
    nms_pc = "done" =>
        /\ \A k \in 1..Len(nms_out) :
              /\ nms_out[k] \in Range(nms_in)
              /\ CountOf(nms_out[k], nms_out) <= CountOf(nms_out[k], nms_in)
        /\ \A k, l \in 1..Len(nms_out) :
              k # l => IoUBelow(nms_out[k], nms_out[l], nms_thr)

\* A run that suppressed one box and kept two overlapping ones.
C5_Witness ==
    /\ nms_pc = "done"
    /\ Len(nms_in) = 3
    /\ Len(nms_out) = 2
    /\ InterArea(nms_out[1], nms_out[2]) > 0

(***************************************************************************)
(* detect_cards: detection_service.py, lines 166-276.                      *)
(*                                                                         *)
(* The pixel work is done by cv2, numpy and scipy; the model takes what    *)
(* they return as the image: the separators _find_col_separators finds,    *)
(* and for each column region the mean brightness of its strip and the     *)
(* sorted peaks scipy.signal.find_peaks finds in its row profile.          *)
(* find_peaks returns strict local maxima: indices in 1..n-2, no two       *)
(* adjacent, at least `distance` apart.                                    *)
(***************************************************************************)

\* col_bounds = [0] + separators + [img_w]
ColBounds(seps, w) == <<0>> \o seps \o <<w>>

\* numpy's reading of a slice bound i on an axis of length n.
SliceIndex(i, n) == IF i < 0 THEN Max2(i + n, 0) ELSE Min2(i, n)

\* enhanced[:, x1:x2] has no column.
StripEmpty(x1, x2, w) == SliceIndex(x2, w) <= SliceIndex(x1, w)

\* A mutant of StripHeight: the height is rounded up instead of truncated.
StripHeight_rounded_up(peaks, cfg) ==
    LET th == (SumSeq(Diff(peaks)) * cfg.title_fraction[1]
                   + (Len(peaks) - 1) * cfg.title_fraction[2] - 1)
                  \div ((Len(peaks) - 1) * cfg.title_fraction[2])
    IN  Max2(cfg.title_min_px, Min2(th, cfg.title_max_px))

\* int(np.diff(peaks).mean() * title_fraction) clamped, lines 255-256; the
\* fraction is frac[1] / frac[2] and the truncation is exact on doubles.
StripHeight(peaks, cfg) ==
    LET th == (SumSeq(Diff(peaks)) * cfg.title_fraction[1])
                  \div ((Len(peaks) - 1) * cfg.title_fraction[2])
    IN  Max2(cfg.title_min_px, Min2(th, cfg.title_max_px))

\* A mutant of PeakBox: the strip is not clipped to the image height.
PeakBox_unclipped(peak_y, x1, x2, th, img_h, cfg) ==
    LET ty1 == Max2(0, peak_y - cfg.peak_top_offset)
    IN  <<x1, ty1, x2 - x1, th>>

\* Lines 261-264: the box of one peak.
PeakBox(peak_y, x1, x2, th, img_h, cfg) ==
    LET ty1 == Max2(0, peak_y - cfg.peak_top_offset)
        ty2 == Min2(img_h, ty1 + th)
    IN  <<x1, ty1, x2 - x1, ty2 - ty1>>

\* A mutant of ProcessColumn: there is no brightness gate.
ProcessColumn_no_brightness_gate(cx1, cx2, col, fallback, img, cfg) ==
    LET x1    == cx1 + cfg.col_x_padding
        x2    == cx2 - cfg.col_x_padding
        peaks == _prune_peaks(col.raw)
        th    == IF Len(peaks) >= 2 THEN StripHeight(peaks, cfg) ELSE fallback
    IN  IF cx2 - cx1 < cfg.col_min_width_px
        THEN [boxes |-> <<>>, fallback |-> fallback,
              log |-> [gate |-> "width", th |-> 0, peaks |-> <<>>,
                       boxes |-> <<>>, fallback |-> fallback,
                       stages |-> <<"width">>]]
        ELSE IF Len(peaks) < cfg.col_min_peaks
        THEN [boxes |-> <<>>, fallback |-> fallback,
              log |-> [gate |-> "peaks", th |-> 0, peaks |-> peaks,
                       boxes |-> <<>>, fallback |-> fallback,
                       stages |-> <<"width", "peaks">>]]
        ELSE LET boxes == [k \in 1..Len(peaks) |->
                              PeakBox(peaks[k], x1, x2, th, img.h, cfg)]
             IN  [boxes |-> boxes, fallback |-> th,
                  log |-> [gate |-> "accepted", th |-> th, peaks |-> peaks,
                           boxes |-> boxes, fallback |-> th,
                           stages |-> <<"width", "peaks">>]]

\* One iteration of the loop of lines 218-264 on the region [cx1, cx2):
\* col is what the libraries return for it, fallback is fallback_title_h.
\* Gives the boxes appended, the new fallback_title_h and a record of the
\* iteration: the gate reached, the gates evaluated, the peaks and strip
\* height, the boxes appended and fallback_title_h at its end.
ProcessColumn(cx1, cx2, col, fallback, img, cfg) ==
    LET x1    == cx1 + cfg.col_x_padding
        x2    == cx2 - cfg.col_x_padding
        empty == StripEmpty(x1, x2, img.w)
        peaks == _prune_peaks(col.raw)
    IN  IF cx2 - cx1 < cfg.col_min_width_px
        THEN [boxes |-> <<>>, fallback |-> fallback,
              log |-> [gate |-> "width", th |-> 0, peaks |-> <<>>,
                       boxes |-> <<>>, fallback |-> fallback,
                       stages |-> <<"width">>]]
        \* the mean of an empty strip is NaN, and NaN < x is false
        ELSE IF ~empty /\ col.bright < cfg.col_min_mean_brightness
        THEN [boxes |-> <<>>, fallback |-> fallback,
              log |-> [gate |-> "brightness", th |-> 0, peaks |-> <<>>,
                       boxes |-> <<>>, fallback |-> fallback,
                       stages |-> <<"width", "brightness">>]]
        ELSE IF Len(peaks) < cfg.col_min_peaks
        THEN [boxes |-> <<>>, fallback |-> fallback,
              log |-> [gate |-> "peaks", th |-> 0, peaks |-> peaks,
                       boxes |-> <<>>, fallback |-> fallback,
                       stages |-> <<"width", "brightness", "peaks">>]]
        ELSE LET th == IF Len(peaks) >= 2 THEN StripHeight(peaks, cfg)
                       ELSE fallback
                 boxes == [k \in 1..Len(peaks) |->
                              PeakBox(peaks[k], x1, x2, th, img.h, cfg)]
             IN  [boxes |-> boxes,
                  fallback |-> IF Len(peaks) >= 2 THEN th ELSE fallback,
                  log |-> [gate |-> "accepted", th |-> th, peaks |-> peaks,
                           boxes |-> boxes,
                           fallback |-> IF Len(peaks) >= 2 THEN th ELSE fallback,
                           stages |-> <<"width", "brightness", "peaks">>]]

\* The loop of lines 218-264 from region i on.
RECURSIVE ColumnLoop(_, _, _, _, _, _)
ColumnLoop(i, all_boxes, fallback, log, img, cfg) ==
    LET bounds == ColBounds(img.seps, img.w)
    IN  IF i > Len(bounds) - 1 THEN [boxes |-> all_boxes, log |-> log]
        ELSE LET r == ProcessColumn(bounds[i], bounds[i + 1], img.cols[i],
                                    fallback, img, cfg)
             IN  ColumnLoop(i + 1, all_boxes \o r.boxes, r.fallback,
                            Append(log, r.log), img, cfg)

\* all_boxes.sort(key=lambda b: (b[0], b[1])), line 270 (stable).
BoxBefore(a, b) == a[1] < b[1] \/ (a[1] = b[1] /\ a[2] < b[2])

RECURSIVE InsertBox(_, _)
InsertBox(s, b) ==
    IF s = <<>> THEN <<b>>
    ELSE IF BoxBefore(b, s[1]) THEN <<b>> \o s
    ELSE <<s[1]>> \o InsertBox(Tail(s), b)

RECURSIVE SortBoxesUpTo(_, _)
SortBoxesUpTo(s, n) ==
    IF n = 0 THEN <<>> ELSE InsertBox(SortBoxesUpTo(s, n - 1), s[n])

SortBoxes(s) == SortBoxesUpTo(s, Len(s))

\* The per-region record of the loop (a ghost of its local variables).
DetectLog(img, cfg) ==
    ColumnLoop(1, <<>>, cfg.title_min_px, <<>>, img, cfg).log

detect_cards(img, cfg) ==
    LET all == ColumnLoop(1, <<>>, cfg.title_min_px, <<>>, img, cfg).boxes
    IN  SortBoxes(_nms(all, cfg.nms_iou_threshold))

(***************************************************************************)
(* SpecDetect: detect_cards on bounded images, for a grid of               *)
(* configurations scaled to the image size.                                *)
(***************************************************************************)
DetW == 6          \* image width
DetH == 8          \* image height

\* DetectionConfig, lines 54-85, scaled to images of a few pixels; the
\* geometry parameters range over values on both sides of zero.
DetConfigs ==
    [col_valley_min_distance : {3},
     col_min_mean_brightness : {60},
     col_min_width_px        : {3},
     col_min_peaks           : {1, 2},
     row_peak_min_distance   : {2},
     title_fraction          : {<<2, 5>>},
     title_min_px            : {0, 1, 5},
     title_max_px            : {1, 6},
     col_x_padding           : {-1, 0, 1},
     peak_top_offset         : {-1, 0, 1},
     nms_iou_threshold       : {<<2, 5>>}]

\* Strictly ascending lists over lo..hi whose neighbours are >= dist apart.
RECURSIVE SpacedLists(_, _, _)
SpacedLists(lo, hi, dist) ==
    IF lo > hi THEN {<<>>}
    ELSE SpacedLists(lo + 1, hi, dist) \cup
         {<<lo>> \o t : t \in SpacedLists(lo + dist, hi, dist)}

\* What find_peaks can return on a profile of length n.
FindPeaksResults(n, dist) == SpacedLists(1, n - 2, Max2(2, dist))

\* What the libraries can return for the region [cx1, cx2): nothing is
\* computed for a region the width gate rejects, an empty strip (all NaN)
\* has no peak, a strip at the brightness threshold has any peaks
\* find_peaks can return, and a strip just below it has none or as many as
\* fit (the code never asks for them).
ColumnInputs(cx1, cx2, w, h, cfg) ==
    LET d == Max2(2, cfg.row_peak_min_distance)
        densest == [k \in 1..((h - 3) \div d + 1) |-> 1 + (k - 1) * d]
    IN  IF cx2 - cx1 < cfg.col_min_width_px
        THEN {[bright |-> 0, raw |-> <<>>]}
        ELSE IF StripEmpty(cx1 + cfg.col_x_padding, cx2 - cfg.col_x_padding, w)
        THEN {[bright |-> 0, raw |-> <<>>]}
        ELSE {[bright |-> 59, raw |-> <<>>], [bright |-> 59, raw |-> densest]}
                 \cup {[bright |-> 60, raw |-> r] :
                           r \in FindPeaksResults(h, cfg.row_peak_min_distance)}

RECURSIVE ColumnInputLists(_, _, _, _, _)
ColumnInputLists(bounds, i, w, h, cfg) ==
    IF i > Len(bounds) - 1 THEN {<<>>}
    ELSE {<<c>> \o t : c \in ColumnInputs(bounds[i], bounds[i + 1], w, h, cfg),
                       t \in ColumnInputLists(bounds, i + 1, w, h, cfg)}

Images(w, h, cfg) ==
    UNION {{[w |-> w, h |-> h, seps |-> seps, cols |-> cols] :
               cols \in ColumnInputLists(ColBounds(seps, w), 1, w, h, cfg)} :
           seps \in FindPeaksResults(w, cfg.col_valley_min_distance)}

InitDetect ==
    /\ PruneIdle
    /\ NmsIdle
    /\ EnvIdle
    /\ RsIdle
    /\ ApiIdle
    /\ ProcIdle
    /\ CmIdle
    /\ det_cfg \in DetConfigs
    /\ det_img = <<>>
    /\ det_log = <<>>
    /\ det_boxes = <<>>
    /\ det_pc = "ready"

\* detect_cards(img) on one image.
Detect ==
    /\ det_pc = "ready"
    /\ \E w \in {DetW - 1, DetW} : \E h \in {DetH - 1, DetH} :
       \E img \in Images(w, h, det_cfg) :
          /\ det_img' = img
          /\ det_log' = DetectLog(img, det_cfg)
          /\ det_boxes' = detect_cards(img, det_cfg)
    /\ det_pc' = "done"
    /\ UNCHANGED <<det_cfg, prune_vars, nms_vars, env_vars, rs_vars, api_vars, proc_vars, cm_vars>>

NextDetect == Detect

SpecDetect == InitDetect /\ [][NextDetect]_vars

(***************************************************************************)
(* Claims about detect_cards, checked under SpecDetect.                    *)
(***************************************************************************)

\* Box b has positive width and height and lies inside a w x h image.
BoxInsideImage(b, w, h) ==
    /\ b[3] > 0
    /\ b[4] > 0
    /\ b[1] >= 0
    /\ b[2] >= 0
    /\ b[1] + b[3] <= w
    /\ b[2] + b[4] <= h

\* C4 as stated: for every image and every set of detection parameters, each
\* box returned by detect_cards has w > 0 and h > 0 and lies inside the image.
C4_Original_BoxesInsideForAnyParameters ==
    det_pc = "done" =>
        \A k \in 1..Len(det_boxes) :
            BoxInsideImage(det_boxes[k], det_img.w, det_img.h)

\* The parameters keep the strip inside its column and give it a height:
\* the padding is not negative and leaves a column of the minimum width a
\* positive width, the crop starts at or above the peak, and the minimum
\* strip height is at least one pixel.
GeometryParametersSane(cfg) ==
    /\ cfg.col_x_padding >= 0
    /\ 2 * cfg.col_x_padding < cfg.col_min_width_px
    /\ cfg.peak_top_offset >= 0
    /\ cfg.title_min_px >= 1

\* C4 (amended): for every image, and every set of detection parameters with
\* col_x_padding >= 0, 2 * col_x_padding < col_min_width_px,
\* peak_top_offset >= 0 and title_min_px >= 1 (the defaults among them), each
\* box returned by detect_cards has w > 0 and h > 0 and lies inside the image.
C4_BoxesInsideImage ==
    (det_pc = "done" /\ GeometryParametersSane(det_cfg)) =>
        \A k \in 1..Len(det_boxes) :
            BoxInsideImage(det_boxes[k], det_img.w, det_img.h)

\* A run with sane parameters that returned boxes from two columns, one box
\* clipped at the top of the image and one at its bottom.
C4_Witness ==
    /\ det_pc = "done"
    /\ GeometryParametersSane(det_cfg)
    /\ det_cfg.col_x_padding = 1
    /\ det_cfg.title_min_px = 5
    /\ det_cfg.title_max_px = 6
    /\ \E k, l \in 1..Len(det_boxes) :
          /\ det_boxes[k][1] # det_boxes[l][1]
          /\ det_boxes[k][2] = 0
          /\ det_boxes[l][2] + det_boxes[l][4] = det_img.h
          /\ det_boxes[l][4] < 5

(***************************************************************************)
(* The catalog: card_db_service.py, CardDatabaseService._load.             *)
(*                                                                         *)
(* A card name is the sequence of its faces: <<"Bolt">> is "Bolt" and      *)
(* <<"Bolt", "Fire">> is "Bolt // Fire"; <<>> is the empty string.  A text *)
(* read from a file is [faces, pad], pad saying that it carries leading or *)
(* trailing whitespace.                                                    *)
(***************************************************************************)
AllFaces == <<"Bolt", "Fire", "Ice">>      \* in str order

FaceRank(f) == CHOOSE i \in 1..Len(AllFaces) : AllFaces[i] = f

\* a < b for two names as Python orders the strings.
RECURSIVE NameLess(_, _)
NameLess(a, b) ==
    IF a = <<>> THEN b # <<>>
    ELSE IF b = <<>> THEN FALSE
    ELSE IF a[1] = b[1] THEN NameLess(Tail(a), Tail(b))
    ELSE FaceRank(a[1]) < FaceRank(b[1])

\* sorted(names) for a set of names.
RECURSIVE SortNames(_)
SortNames(S) ==
    IF S = {} THEN <<>>
    ELSE LET m == CHOOSE x \in S : \A y \in S \ {x} : NameLess(x, y)
         IN  <<m>> \o SortNames(S \ {m})

\* text.strip(), as a name
Strip(text) == text.faces

\* text.split(' // ')[0].strip(), as a name
FrontFace(text) == IF text.faces = <<>> THEN <<>> ELSE <<text.faces[1]>>

\* Lines 48-59: the names one parsed JSON document adds to acc, item by item
\* from item i on.  An item whose 'name' is not a string raises inside the
\* loop: the names added before it stay in the set (the except clause of
\* line 61 only logs).
RECURSIVE JsonNames(_, _, _, _)
JsonNames(shape, items, i, acc) ==
    IF i > Len(items) THEN acc
    ELSE LET item == items[i]
         IN  IF item.type = "badname" THEN acc
             ELSE IF item.type = "obj"
             THEN JsonNames(shape, items, i + 1, acc \cup {FrontFace(item.text)})
             ELSE IF item.type = "str" /\ shape = "list"
             THEN JsonNames(shape, items, i + 1, acc \cup {Strip(item.text)})
             ELSE JsonNames(shape, items, i + 1, acc)

\* Lines 66-69: the names the lines of one text file add.
TxtNames(items) ==
    {Strip(items[i].text) : i \in {j \in 1..Len(items) : items[j].type = "line"}}

\* The names one file of the folder contributes (lines 45-71); a file that
\* cannot be read or parsed contributes none.
FileNames(file) ==
    IF ~file.ok THEN {}
    ELSE IF file.kind = "json"
    THEN IF file.shape \in {"list", "data"}
         THEN JsonNames(file.shape, file.items, 1, {})
         ELSE {}
    ELSE TxtNames(file.items)

\* A mutant of _load: a file that cannot be read or parsed aborts the load.
_load_aborts(folder) ==
    IF ~folder.exists THEN <<>>
    ELSE IF \E i \in 1..Len(folder.files) : ~folder.files[i].ok THEN <<>>
    ELSE SortNames(UNION {FileNames(folder.files[i]) : i \in 1..Len(folder.files)})

\* _load: the value assigned to self._card_names (line 73).  glob on a
\* folder that does not exist yields no path.
_load(folder) ==
    IF ~folder.exists THEN <<>>
    ELSE SortNames(UNION {FileNames(folder.files[i]) : i \in 1..Len(folder.files)})

(***************************************************************************)
(* The Name Resolver: fuzzy_match and search.                              *)
(*                                                                         *)
(* fuzz.WRatio is rapidfuzz's; the model takes its scores as given with    *)
(* the call, one per catalog entry, in hundredths of a point (0..10000     *)
(* for 0.0..100.0).  WRatio of an empty string is 0.                       *)
(***************************************************************************)
MaxOfSet(S) == CHOOSE m \in S : \A x \in S : x <= m

BestScore(scores) == MaxOfSet(Range(scores))

\* The entries extractOne may return: those of maximal score.
BestIndices(scores) == {i \in 1..Len(scores) : scores[i] = BestScore(scores)}

\* A mutant of ExtractOne: score_cutoff is ignored.
ExtractOne_no_cutoff(scores, cutoff) == BestIndices(scores)

\* process.extractOne(query, names, scorer=WRatio, score_cutoff=cutoff),
\* lines 97-102: the entries it may return, none when the best score is
\* below the cutoff.
ExtractOne(scores, cutoff) ==
    IF BestScore(scores) >= 100 * cutoff THEN BestIndices(scores) ELSE {}

\* round(score / 100, 3) in thousandths, line 107.  score / 100 is a binary
\* double: a decimal tie (..5) falls to either side.
Round3(score) ==
    LET q == score \div 10
        r == score % 10
    IN  IF r < 5 THEN {q} ELSE IF r > 5 THEN {q + 1} ELSE {q, q + 1}

NoMatch == [found |-> FALSE, name |-> <<>>, conf |-> 0]

\* A mutant of fuzzy_match: the guard on an empty query is missing.
fuzzy_match_unguarded(query, threshold, names, scores, available) ==
    IF names = <<>> THEN {NoMatch}
    ELSE IF ~available THEN {NoMatch}
    ELSE IF ExtractOne(scores, threshold) = {} THEN {NoMatch}
    ELSE UNION {{[found |-> TRUE, name |-> names[i], conf |-> c] :
                    c \in Round3(scores[i])} : i \in ExtractOne(scores, threshold)}

\* fuzzy_match(query, threshold), lines 81-107, on the catalog names: the
\* answers it may give, NoMatch being None.
fuzzy_match(query, threshold, names, scores, available) ==
    IF query = "" \/ names = <<>> THEN {NoMatch}
    ELSE IF ~available THEN {NoMatch}
    ELSE IF ExtractOne(scores, threshold) = {} THEN {NoMatch}
    ELSE UNION {{[found |-> TRUE, name |-> names[i], conf |-> c] :
                    c \in Round3(scores[i])} : i \in ExtractOne(scores, threshold)}

\* process.extract orders by score descending, equal scores by position.
RECURSIVE InsertByScore(_, _, _)
InsertByScore(order, i, scores) ==
    IF order = <<>> THEN <<i>>
    ELSE IF scores[i] > scores[order[1]] THEN <<i>> \o order
    ELSE <<order[1]>> \o InsertByScore(Tail(order), i, scores)

RECURSIVE ScoreOrderUpTo(_, _)
ScoreOrderUpTo(scores, n) ==
    IF n = 0 THEN <<>>
    ELSE InsertByScore(ScoreOrderUpTo(scores, n - 1), n, scores)

\* search(query, limit), lines 109-116.
search(query, limit, names, scores, available) ==
    IF query = "" \/ ~available THEN <<>>
    ELSE LET order == ScoreOrderUpTo(scores, Len(names))
         IN  [k \in 1..Min2(limit, Len(names)) |-> names[order[k]]]

(***************************************************************************)
(* SpecResolver: one CardDatabaseService used by NThreads threads.         *)
(* ensure_loaded is three steps per thread, as the interpreter may switch  *)
(* threads between them: the test of _loaded together with the entry into  *)
(* _load, the assignment of _card_names that ends _load, and the           *)
(* assignment of _loaded.  fuzzy_match and search read _card_names as it   *)
(* is at the call.                                                         *)
(***************************************************************************)
NThreads == 2

Threads == 1..NThreads

TxtLine(faces, pad) == [type |-> "line", text |-> [faces |-> faces, pad |-> pad]]
TxtComment == [type |-> "comment", text |-> [faces |-> <<>>, pad |-> FALSE]]
TxtBlank   == [type |-> "blank", text |-> [faces |-> <<>>, pad |-> TRUE]]
JsonStr(faces, pad) == [type |-> "str", text |-> [faces |-> faces, pad |-> pad]]
JsonObj(faces, pad) == [type |-> "obj", text |-> [faces |-> faces, pad |-> pad]]
JsonOther   == [type |-> "other", text |-> [faces |-> <<>>, pad |-> FALSE]]
JsonBadName == [type |-> "badname", text |-> [faces |-> <<>>, pad |-> FALSE]]

JsonFile(ok, shape, items) ==
    [kind |-> "json", ok |-> ok, shape |-> shape, items |-> items]
TxtFile(ok, items) ==
    [kind |-> "txt", ok |-> ok, shape |-> "lines", items |-> items]

\* The card DB folders the resolver is run on; *.json files come first, as
\* _load reads them first.
DbFolders ==
    { [exists |-> FALSE, files |-> <<>>],
      [exists |-> TRUE, files |-> <<>>],
      [exists |-> TRUE, files |-> <<TxtFile(TRUE, <<TxtComment, TxtBlank>>)>>],
      [exists |-> TRUE,
       files |-> <<JsonFile(TRUE, "list", <<JsonObj(<<"Bolt", "Bolt">>, FALSE)>>),
                   TxtFile(TRUE, <<TxtLine(<<"Bolt">>, FALSE)>>)>>],
      [exists |-> TRUE,
       files |-> <<JsonFile(TRUE, "list", <<JsonStr(<<"Fire">>, TRUE),
                                            JsonObj(<<"Bolt", "Fire">>, FALSE),
                                            JsonOther>>),
                   JsonFile(TRUE, "data", <<JsonObj(<<"Fire", "Ice">>, TRUE),
                                            JsonStr(<<"Ice">>, FALSE)>>)>>],
      [exists |-> TRUE,
       files |-> <<JsonFile(FALSE, "list", <<JsonStr(<<"Fire">>, FALSE)>>),
                   TxtFile(TRUE, <<TxtLine(<<"Ice">>, TRUE),
                                   TxtLine(<<"Bolt", "Fire">>, FALSE)>>)>>],
      [exists |-> TRUE,
       files |-> <<JsonFile(TRUE, "list", <<JsonStr(<<"Ice">>, FALSE), JsonBadName,
                                            JsonStr(<<"Fire">>, FALSE)>>),
                   JsonFile(TRUE, "other", <<>>)>>] }

Queries    == {"", "L1ghtn1ng Bo1t"}
Thresholds == {0, 70}
Limits     == {1, 2}
ScoreVals  == {6995, 7000, 8571, 8575, 10000}

\* What fuzz.WRatio may give for the query against each catalog entry.
ScoreVectors(query, names) ==
    IF query = "" THEN {[i \in 1..Len(names) |-> 0]}
    ELSE [1..Len(names) -> ScoreVals]

NoCall ==
    [op |-> "none", query |-> "", threshold |-> 0, limit |-> 0, catalog |-> <<>>,
     loaded |-> FALSE, scores |-> <<>>, found |-> FALSE, name |-> <<>>,
     conf |-> 0, list |-> <<>>]

InitResolver ==
    /\ db_folder \in DbFolders
    /\ rapidfuzz \in BOOLEAN
    /\ rs_names = <<>>
    /\ rs_loaded = FALSE
    /\ rs_pc = [t \in Threads |-> "idle"]
    /\ rs_loads = 0
    /\ rs_last = NoCall
    /\ PruneIdle
    /\ NmsIdle
    /\ DetIdle
    /\ ApiIdle
    /\ ProcIdle
    /\ CmIdle

\* ensure_loaded, lines 29-30: the test of _loaded and the call of _load.
EnsureLoaded(t) ==
    /\ rs_pc[t] = "idle"
    /\ IF rs_loaded
       THEN UNCHANGED <<rs_pc, rs_loads>>
       ELSE /\ rs_pc' = [rs_pc EXCEPT ![t] = "loading"]
            /\ rs_loads' = rs_loads + 1
    /\ UNCHANGED <<rs_names, rs_loaded, rs_last, env_vars, prune_vars, nms_vars,
                   det_vars, api_vars, proc_vars, cm_vars>>

\* _load, line 73: the names collected in the local set become the catalog.
LoadAssign(t) ==
    /\ rs_pc[t] = "loading"
    /\ rs_names' = _load(db_folder)
    /\ rs_pc' = [rs_pc EXCEPT ![t] = "mark"]
    /\ UNCHANGED <<rs_loaded, rs_loads, rs_last, env_vars, prune_vars, nms_vars,
                   det_vars, api_vars, proc_vars, cm_vars>>

\* ensure_loaded, line 32.
MarkLoaded(t) ==
    /\ rs_pc[t] = "mark"
    /\ rs_loaded' = TRUE
    /\ rs_pc' = [rs_pc EXCEPT ![t] = "idle"]
    /\ UNCHANGED <<rs_names, rs_loads, rs_last, env_vars, prune_vars, nms_vars,
                   det_vars, api_vars, proc_vars, cm_vars>>

\* A call of fuzzy_match by a thread that is not inside ensure_loaded.
FuzzyMatch ==
    /\ \E t \in Threads : rs_pc[t] = "idle"
    /\ \E query \in Queries, threshold \in Thresholds :
       \E scores \in ScoreVectors(query, rs_names) :
       \E r \in fuzzy_match(query, threshold, rs_names, scores, rapidfuzz) :
           rs_last' = [op |-> "fuzzy_match", query |-> query,
                       threshold |-> threshold, limit |-> 0,
                       catalog |-> rs_names, loaded |-> rs_loaded,
                       scores |-> scores, found |-> r.found, name |-> r.name,
                       conf |-> r.conf, list |-> <<>>]
    /\ UNCHANGED <<rs_names, rs_loaded, rs_pc, rs_loads, env_vars, prune_vars,
                   nms_vars, det_vars, api_vars, proc_vars, cm_vars>>

\* A call of search by a thread that is not inside ensure_loaded.
Search ==
    /\ \E t \in Threads : rs_pc[t] = "idle"
    /\ \E query \in Queries, limit \in Limits :
       \E scores \in ScoreVectors(query, rs_names) :
           rs_last' = [op |-> "search", query |-> query, threshold |-> 0,
                       limit |-> limit, catalog |-> rs_names,
                       loaded |-> rs_loaded, scores |-> scores,
                       found |-> FALSE, name |-> <<>>, conf |-> 0,
                       list |-> search(query, limit, rs_names, scores, rapidfuzz)]
    /\ UNCHANGED <<rs_names, rs_loaded, rs_pc, rs_loads, env_vars, prune_vars,
                   nms_vars, det_vars, api_vars, proc_vars, cm_vars>>

NextResolver ==
    \/ \E t \in Threads : EnsureLoaded(t)
    \/ \E t \in Threads : LoadAssign(t)
    \/ \E t \in Threads : MarkLoaded(t)
    \/ FuzzyMatch
    \/ Search

SpecResolver == InitResolver /\ [][NextResolver]_vars

\* C7 as stated: the lazy load is synchronized, so that the body of _load is
\* entered at most once however many threads call ensure_loaded on a catalog
\* that is not loaded yet, and no second thread is inside it meanwhile.
\* ensure_loaded takes no lock: two threads pass the test of _loaded before
\* either sets it.
C7_LoadBodyRunsAtMostOnce ==
    /\ rs_loads <= 1
    /\ Cardinality({t \in Threads : rs_pc[t] \in {"loading", "mark"}}) <= 1

\* C8 as stated: the first fuzzy_match or search call on a resolver whose
\* catalog is not loaded triggers the load and is answered against the
\* loaded catalog, so every lookup has been answered against the catalog of
\* the folder and after a load.  Neither method calls ensure_loaded.
C8_LookupLoadsTheCatalog ==
    rs_last.op \in {"fuzzy_match", "search"} =>
        /\ rs_loads >= 1
        /\ rs_last.catalog = _load(db_folder)

\* No item of any file of the folder carries a name.
HoldsNoNames(folder) ==
    \A i \in 1..Len(folder.files) :
        \A j \in 1..Len(folder.files[i].items) :
            folder.files[i].items[j].type \notin {"str", "obj", "line"}

\* C9: fuzzy_match answers no-match whenever the query is empty or the
\* catalog is empty, and a card DB folder that is missing or holds no names
\* loads as the empty catalog, so that every lookup after the load is a miss.
C9_EmptyQueryOrCatalogIsNoMatch ==
    /\ (rs_last.op = "fuzzy_match"
        /\ (rs_last.query = "" \/ rs_last.catalog = <<>>)) => ~rs_last.found
    /\ (~db_folder.exists \/ HoldsNoNames(db_folder)) =>
           /\ (\E t \in Threads : rs_pc[t] = "mark") \/ rs_loaded
                  => rs_names = <<>>
           /\ rs_last.op = "fuzzy_match" => ~rs_last.found

\* A lookup with a non-empty query, rapidfuzz present, after the load of a
\* folder that does not exist, has missed.
C9_Witness ==
    /\ ~db_folder.exists
    /\ rapidfuzz
    /\ rs_loaded
    /\ rs_last.op = "fuzzy_match"
    /\ rs_last.loaded
    /\ rs_last.query # ""
    /\ rs_last.threshold = 0
    /\ ~rs_last.found

\* The catalog position of the name fuzzy_match returned.
ReturnedIndex ==
    CHOOSE i \in 1..Len(rs_last.catalog) : rs_last.catalog[i] = rs_last.name

\* What C10 says of a returned pair short of the value of c: the name is a
\* catalog entry of maximal score and that score is at least the threshold.
ReturnedIsBestAboveThreshold ==
    /\ \E i \in 1..Len(rs_last.catalog) : rs_last.catalog[i] = rs_last.name
    /\ rs_last.scores[ReturnedIndex] = BestScore(rs_last.scores)
    /\ rs_last.scores[ReturnedIndex] >= 100 * rs_last.threshold
    /\ 10 * rs_last.threshold <= rs_last.conf
    /\ rs_last.conf <= 1000

\* When the best score of a non-empty catalog is below the threshold the
\* answer is no-match.
BelowThresholdIsNoMatch ==
    (/\ rs_last.op = "fuzzy_match"
     /\ rs_last.catalog # <<>>
     /\ BestScore(rs_last.scores) < 100 * rs_last.threshold) => ~rs_last.found

\* C10 as stated: the confidence c of a returned pair equals the score
\* divided by 100 (here: c in thousandths times 10 is the score in
\* hundredths of a point).
C10_Original_ConfidenceIsScoreOver100 ==
    /\ (rs_last.op = "fuzzy_match" /\ rs_last.found) =>
           /\ ReturnedIsBestAboveThreshold
           /\ 10 * rs_last.conf = rs_last.scores[ReturnedIndex]
    /\ BelowThresholdIsNoMatch

\* C10, amended: whenever fuzzy_match returns (name, c), name is a catalog
\* entry of maximal score, the score is at least the threshold, c is the
\* score divided by 100 rounded to three decimals (so within 0.0005 of it)
\* and t/100 <= c <= 1; when the best score is below the threshold the answer
\* is no-match.
C10_ConfidenceIsRoundedScore ==
    /\ (rs_last.op = "fuzzy_match" /\ rs_last.found) =>
           /\ ReturnedIsBestAboveThreshold
           /\ 10 * rs_last.conf - rs_last.scores[ReturnedIndex] \in -5..5
    /\ BelowThresholdIsNoMatch

\* A match at threshold 70 whose best entry is not the first of the catalog
\* and whose score 85.71 is returned as 0.857.
C10_Witness ==
    /\ rs_last.op = "fuzzy_match"
    /\ rs_last.found
    /\ rs_last.threshold = 70
    /\ Len(rs_last.catalog) >= 2
    /\ rs_last.scores[1] = 7000
    /\ rs_last.scores[2] = 8571
    /\ rs_last.name = rs_last.catalog[2]
    /\ rs_last.conf = 857

(***************************************************************************)
(* Text Extraction and process_image: ocr_service.py, read_text, and       *)
(* cube_checkin_service.py, _preprocess_for_ocr, _process_card_region and  *)
(* process_image.                                                          *)
(*                                                                         *)
(* An image is [w, h, ch]: its width, height and number of channels; what  *)
(* cv2.imread returns has 3.  A text field of a card is a sequence of      *)
(* tokens: <<>> is the empty string and None the Python None.              *)
(***************************************************************************)
TextOf(str) == IF str = "" THEN <<>> ELSE <<str>>

\* _preprocess_for_ocr, lines 252-266.  An empty image is returned as it is;
\* any other is scaled to height 60 when lower, int(w * (60 / h)) being the
\* exact floor for the heights used here, and comes back as a binary image
\* of ONE channel (cvtColor BGR2GRAY, then CLAHE, denoising, threshold and
\* closing, all of which keep one channel).
_preprocess_for_ocr(img) ==
    IF img.w * img.h = 0 THEN img
    ELSE IF img.h < 60
    THEN [w |-> Max2(1, (img.w * 60) \div img.h), h |-> 60, ch |-> 1]
    ELSE [w |-> img.w, h |-> img.h, ch |-> 1]

\* A mutant of read_text: nothing is caught.
read_text_uncaught(img, env) ==
    IF ~env.tesseract THEN [raised |-> FALSE, text |-> ""]
    ELSE IF img.w * img.h = 0 THEN [raised |-> FALSE, text |-> ""]
    ELSE IF img.h < 30 \/ img.w < 60 THEN [raised |-> FALSE, text |-> ""]
    ELSE IF img.ch \notin {3, 4} THEN [raised |-> TRUE, text |-> ""]
    ELSE IF env.engine = "raise" THEN [raised |-> TRUE, text |-> ""]
    ELSE [raised |-> FALSE, text |-> env.engine]

\* OCRService.read_text, lines 25-57.  cv2.cvtColor(img, COLOR_BGR2GRAY) of
\* line 48 raises cv2.error for an image that has not 3 or 4 channels; this
\* and a failure of the engine are caught at line 55.  env.engine is what
\* the engine reads, after _clean.
read_text(img, env) ==
    IF ~env.tesseract THEN [raised |-> FALSE, text |-> ""]
    ELSE IF img.w * img.h = 0 THEN [raised |-> FALSE, text |-> ""]
    ELSE IF img.h < 30 \/ img.w < 60 THEN [raised |-> FALSE, text |-> ""]
    ELSE IF img.ch \notin {3, 4} THEN [raised |-> FALSE, text |-> ""]
    ELSE IF env.engine = "raise" THEN [raised |-> FALSE, text |-> ""]
    ELSE [raised |-> FALSE, text |-> env.engine]

\* Lines 135-139: the crop is pre-processed, then read.  fault says that a
\* cv2 call inside _preprocess_for_ocr raises; nothing catches it.
TextExtraction(crop, fault, env) ==
    IF fault /\ crop.w * crop.h # 0 THEN [raised |-> TRUE, text |-> ""]
    ELSE read_text(_preprocess_for_ocr(crop), env)

\* Lines 122-126: the box clipped to the image.
ClipBox(bbox, img_w, img_h) ==
    LET x1 == Max2(0, bbox[1])
        y1 == Max2(0, bbox[2])
        x2 == Min2(img_w, bbox[1] + bbox[3])
        y2 == Min2(img_h, bbox[2] + bbox[4])
    IN  <<x1, y1, x2 - x1, y2 - y1>>

\* Lines 140-145: the match of the text that was read, if any.
MatchResult(raw_text, env) ==
    IF raw_text = "" THEN NoMatch
    ELSE CHOOSE r \in fuzzy_match(raw_text, env.threshold, env.names,
                                  env.scores, env.rapidfuzz) : TRUE

\* A mutant of _process_card_region: no box is too small.
_process_card_region_any_size(img, bbox, fault, env) ==
    LET clip == ClipBox(bbox, img.w, img.h)
        ocr  == TextExtraction([w |-> clip[3], h |-> clip[4], ch |-> 3], fault, env)
        m    == MatchResult(ocr.text, env)
    IN  IF ocr.raised THEN [kind |-> "raised", card |-> <<>>]
        ELSE [kind |-> "card",
              card |-> [raw_ocr_text |-> TextOf(ocr.text),
                        recognized_name |-> IF m.found THEN m.name ELSE None,
                        match_score |-> IF m.found THEN m.conf ELSE 0,
                        status |-> "DETECTED",
                        bbox |-> clip]]

\* _process_card_region, lines 115-168: nothing for a box too small, else
\* the Card of the box; an exception of the pre-processing propagates.
_process_card_region(img, bbox, fault, env) ==
    LET clip == ClipBox(bbox, img.w, img.h)
        ocr  == TextExtraction([w |-> clip[3], h |-> clip[4], ch |-> 3], fault, env)
        m    == MatchResult(ocr.text, env)
    IN  IF clip[3] < 10 \/ clip[4] < 5 THEN [kind |-> "none", card |-> <<>>]
        ELSE IF ocr.raised THEN [kind |-> "raised", card |-> <<>>]
        ELSE [kind |-> "card",
              card |-> [raw_ocr_text |-> TextOf(ocr.text),
                        recognized_name |-> IF m.found THEN m.name ELSE None,
                        match_score |-> IF m.found THEN m.conf ELSE 0,
                        status |-> "DETECTED",
                        bbox |-> clip]]

\* The loop of lines 98-105 from box idx on; cards are those collected so
\* far.  An exception leaves the loop and process_image.
RECURSIVE BoxLoop(_, _, _, _)
BoxLoop(in, img, idx, cards) ==
    IF idx > Len(in.boxes) THEN [raised |-> FALSE, cards |-> cards]
    ELSE LET r == _process_card_region(img, in.boxes[idx], in.fault = idx, in.env)
         IN  IF r.kind = "raised" THEN [raised |-> TRUE, cards |-> <<>>]
             ELSE IF r.kind = "none" THEN BoxLoop(in, img, idx + 1, cards)
             ELSE BoxLoop(in, img, idx + 1, Append(cards, r.card))

\* process_image, lines 71-109.  in.boxes is what detect_cards returned for
\* the image; cv2.imread gives None for a file that is no readable image.
process_image(in) ==
    IF ~in.readable THEN [raised |-> TRUE, cards |-> <<>>]
    ELSE BoxLoop(in, [w |-> in.w, h |-> in.h, ch |-> 3], 1, <<>>)

\* x or y, for None and the empty string being false.
OrElse(x, y) == IF x \in {None, <<>>} THEN y ELSE x

\* A mutant of display_name: the recognized name comes first.
display_name_recognized_first(card) ==
    OrElse(card.recognized_name,
           OrElse(card.confirmed_name,
                  OrElse(card.raw_ocr_text, <<"Unknown Card">>)))

\* Card.display_name, models/__init__.py lines 152-154.
display_name(card) ==
    OrElse(card.confirmed_name,
           OrElse(card.recognized_name,
                  OrElse(card.raw_ocr_text, <<"Unknown Card">>)))

\* update_card_name, cube_checkin_service.py lines 207-210.
update_card_name(card, confirmed_name) ==
    [card EXCEPT !.confirmed_name = confirmed_name, !.status = "CONFIRMED"]

\* The characters of a raw engine output, one of each kind: a letter, a
\* space, an apostrophe, a hyphen, a comma, a line feed and a digit.  A
\* text is a sequence of characters.
CleanChars == {"a", " ", "'", "-", ",", "\n", "7"}

\* The characters str.strip() and the pattern \s take for whitespace.
Whitespace == {" ", "\n"}

\* str.strip()
RECURSIVE strip(_)
strip(text) ==
    IF text = <<>> THEN <<>>
    ELSE IF Head(text) \in Whitespace THEN strip(Tail(text))
    ELSE IF text[Len(text)] \in Whitespace
    THEN strip(SubSeq(text, 1, Len(text) - 1))
    ELSE text

\* re.sub(r'\s+', ' ', text), line 65: every run of whitespace becomes one
\* space.
RECURSIVE CollapseWhitespace(_)
CollapseWhitespace(text) ==
    IF text = <<>> THEN <<>>
    ELSE IF Head(text) \notin Whitespace
    THEN <<Head(text)>> \o CollapseWhitespace(Tail(text))
    ELSE IF Len(text) >= 2 /\ text[2] \in Whitespace
    THEN CollapseWhitespace(Tail(text))
    ELSE <<" ">> \o CollapseWhitespace(Tail(text))

\* OCRService._clean, ocr_service.py lines 59-66.  The pattern of line 64,
\* [^A-Za-z ',\-], removes every character that is not a letter, a space,
\* an apostrophe, a comma or a hyphen.
_clean(text) ==
    LET kept == SelectSeq(strip(text),
                          LAMBDA c : c \in {"a", " ", "'", ",", "-"})
    IN  strip(CollapseWhitespace(kept))

\* render_annotated_image, cube_checkin_service.py lines 174-201.  cv2 is
\* what the cv2 calls after imread do: "ok"; "raise" (an exception in a
\* drawing call or in imwrite, caught at line 199); or "not written"
\* (imwrite returns False without raising, as it does when the file cannot
\* be created; line 197 does not look at what it returns).  The cards are
\* only read.
render_annotated_image(in) ==
    IF ~in.readable
    THEN [raised |-> FALSE, ok |-> FALSE, written |-> FALSE, cards |-> in.cards]
    ELSE IF in.cv2 = "raise"
    THEN [raised |-> FALSE, ok |-> FALSE, written |-> FALSE, cards |-> in.cards]
    ELSE [raised |-> FALSE, ok |-> TRUE, written |-> in.cv2 = "ok",
          cards |-> in.cards]

(***************************************************************************)
(* SpecProcess: process_image on an image with up to MaxProcBoxes boxes,   *)
(* Text Extraction on single crops, and update_card_name on single cards.  *)
(***************************************************************************)
ProcW        == 12
ProcH        == 8
MaxProcBoxes == 2

ProcBoxes == {0, 4} \X {0, 4} \X {6, 10} \X {4, 8}

ProcBoxLists == UNION {[1..n -> ProcBoxes] : n \in 0..MaxProcBoxes}

EngineOutcomes == {"raise", "", "Lightnng Bot"}

\* The services of one CubeCheckinService: the OCR engine and the catalog.
ProcEnvs ==
    [tesseract : BOOLEAN, engine : EngineOutcomes, rapidfuzz : {TRUE},
     threshold : {70}, names : {<<<<"Bolt">>>>}, scores : {<<8571>>}]

\* Crops handed to Text Extraction: empty, too small to use, and usable ones.
TextCrops ==
    {[w |-> 0, h |-> 0, ch |-> 3], [w |-> 3, h |-> 3, ch |-> 3],
     [w |-> 10, h |-> 5, ch |-> 3], [w |-> 70, h |-> 40, ch |-> 3],
     [w |-> 120, h |-> 60, ch |-> 3]}

NoCrop == [w |-> 0, h |-> 0, ch |-> 3]

CardStatuses == {"DETECTED", "CONFIRMED", "DRAFTED", "RETURNED", "REMOVED"}

\* The cards update_card_name is applied to.
EditedCards ==
    [raw_ocr_text : {<<>>, <<"Lightnng Bot">>},
     recognized_name : {None, <<"Bolt">>},
     match_score : {0, 857},
     confirmed_name : {None, <<>>, <<"Fire">>},
     status : CardStatuses]

EditNames == {None, <<>>, <<"Bolt">>, <<"Fire">>}

\* The raw engine outputs _clean is applied to.
MaxRawLen == 4
RawTexts == UNION {[1..n -> CleanChars] : n \in 0..MaxRawLen}

\* The candidates render_annotated_image draws: a confirmed, a recognized
\* and an unresolved one.
RenderCards ==
    { [raw_ocr_text |-> <<"Lightnng Bot">>, recognized_name |-> <<"Bolt">>,
       match_score |-> 857, confirmed_name |-> <<"Bolt">>,
       status |-> "CONFIRMED", bbox |-> <<0, 0, 10, 8>>],
      [raw_ocr_text |-> <<"Lightnng Bot">>, recognized_name |-> <<"Bolt">>,
       match_score |-> 857, confirmed_name |-> None,
       status |-> "DETECTED", bbox |-> <<0, 0, 10, 8>>],
      [raw_ocr_text |-> <<>>, recognized_name |-> None,
       match_score |-> 0, confirmed_name |-> None,
       status |-> "DETECTED", bbox |-> <<0, 4, 10, 4>>] }

InitProcess ==
    /\ \/ \E readable \in BOOLEAN, boxes \in ProcBoxLists,
             fault \in 0..MaxProcBoxes, env \in ProcEnvs :
              pi_in = [op |-> "process_image", readable |-> readable,
                       w |-> ProcW, h |-> ProcH, boxes |-> boxes,
                       fault |-> fault, crop |-> NoCrop, env |-> env]
       \/ \E crop \in TextCrops, fault \in 0..1, env \in ProcEnvs :
              pi_in = [op |-> "text", readable |-> TRUE, w |-> ProcW,
                       h |-> ProcH, boxes |-> <<>>, fault |-> fault,
                       crop |-> crop, env |-> env]
       \/ \E card \in EditedCards, name \in EditNames :
              pi_in = [op |-> "update_card_name", card |-> card, name |-> name]
       \/ \E raw \in RawTexts : pi_in = [op |-> "_clean", raw |-> raw]
       \/ \E readable \in BOOLEAN, cv2 \in {"ok", "raise", "not written"},
             cards \in UNION {[1..n -> RenderCards] : n \in 0..MaxProcBoxes} :
              pi_in = [op |-> "render_annotated_image", readable |-> readable,
                       cv2 |-> cv2, cards |-> cards]
    /\ pi_out = <<>>
    /\ pi_pc = "ready"
    /\ PruneIdle
    /\ NmsIdle
    /\ DetIdle
    /\ EnvIdle
    /\ RsIdle
    /\ ApiIdle
    /\ CmIdle

ProcessImage ==
    /\ pi_pc = "ready"
    /\ pi_in.op = "process_image"
    /\ pi_out' = process_image(pi_in) @@ [text |-> ""]
    /\ pi_pc' = "done"
    /\ UNCHANGED <<pi_in, prune_vars, nms_vars, det_vars, env_vars, rs_vars,
                   api_vars, cm_vars>>

ExtractText ==
    /\ pi_pc = "ready"
    /\ pi_in.op = "text"
    /\ pi_out' = TextExtraction(pi_in.crop, pi_in.fault = 1, pi_in.env)
                     @@ [cards |-> <<>>]
    /\ pi_pc' = "done"
    /\ UNCHANGED <<pi_in, prune_vars, nms_vars, det_vars, env_vars, rs_vars,
                   api_vars, cm_vars>>

UpdateCardName ==
    /\ pi_pc = "ready"
    /\ pi_in.op = "update_card_name"
    /\ pi_out' = [card |-> update_card_name(pi_in.card, pi_in.name)]
    /\ pi_pc' = "done"
    /\ UNCHANGED <<pi_in, prune_vars, nms_vars, det_vars, env_vars, rs_vars,
                   api_vars, cm_vars>>

Clean ==
    /\ pi_pc = "ready"
    /\ pi_in.op = "_clean"
    /\ pi_out' = [text |-> _clean(pi_in.raw)]
    /\ pi_pc' = "done"
    /\ UNCHANGED <<pi_in, prune_vars, nms_vars, det_vars, env_vars, rs_vars,
                   api_vars, cm_vars>>

RenderAnnotatedImage ==
    /\ pi_pc = "ready"
    /\ pi_in.op = "render_annotated_image"
    /\ pi_out' = render_annotated_image(pi_in)
    /\ pi_pc' = "done"
    /\ UNCHANGED <<pi_in, prune_vars, nms_vars, det_vars, env_vars, rs_vars,
                   api_vars, cm_vars>>

NextProcess ==
    \/ ProcessImage
    \/ ExtractText
    \/ UpdateCardName
    \/ Clean
    \/ RenderAnnotatedImage

SpecProcess == InitProcess /\ [][NextProcess]_vars

\* The clipped boxes that are at least 10 px wide and 5 px high, in box order.
QualifyingClips(in) ==
    SelectSeq([i \in 1..Len(in.boxes) |-> ClipBox(in.boxes[i], in.w, in.h)],
              LAMBDA c : c[3] >= 10 /\ c[4] >= 5)

C14_BoxFailureIsIsolated ==
    (pi_pc = "done" /\ pi_in.op = "process_image" /\ pi_in.readable) =>
        /\ ~pi_out.raised
        /\ Len(pi_out.cards) = Len(QualifyingClips(pi_in))

\* C17: for an empty crop, a crop too small to use, an unavailable engine or
\* a failure of the engine, and with no failure inside the pre-processing
\* itself, pre-processing followed by read_text returns the empty string and
\* raises nothing.
C17_TextExtractionReturnsEmpty ==
    (/\ pi_pc = "done"
     /\ pi_in.op = "text"
     /\ pi_in.fault = 0
     /\ \/ pi_in.crop.w * pi_in.crop.h = 0
        \/ pi_in.crop.h < 30
        \/ pi_in.crop.w < 60
        \/ ~pi_in.env.tesseract
        \/ pi_in.env.engine = "raise") =>
        /\ ~pi_out.raised
        /\ pi_out.text = ""

\* Text Extraction of a crop large enough to read, by an engine that is
\* present and fails, has returned the empty string.
C17_Witness ==
    /\ pi_pc = "done"
    /\ pi_in.op = "text"
    /\ pi_in.fault = 0
    /\ pi_in.crop = [w |-> 120, h |-> 60, ch |-> 3]
    /\ pi_in.env.tesseract
    /\ pi_in.env.engine = "raise"
    /\ ~pi_out.raised
    /\ pi_out.text = ""

\* C16: for any card, whatever its status, raw text and recognized name,
\* and any non-empty name n, after update_card_name(card, n) the status of
\* the card is CONFIRMED and its display name is n.
C16_ConfirmedNameIsDisplayed ==
    (/\ pi_pc = "done"
     /\ pi_in.op = "update_card_name"
     /\ pi_in.name \notin {None, <<>>}) =>
        /\ pi_out.card.status = "CONFIRMED"
        /\ display_name(pi_out.card) = pi_in.name

\* A detected card without recognized name, displayed under its raw text,
\* after the update to "Bolt".
C16_Witness ==
    /\ pi_pc = "done"
    /\ pi_in.op = "update_card_name"
    /\ pi_in.name = <<"Bolt">>
    /\ pi_in.card.recognized_name = None
    /\ pi_in.card.raw_ocr_text # <<>>
    /\ pi_in.card.status = "DETECTED"
    /\ display_name(pi_in.card) = pi_in.card.raw_ocr_text
    /\ pi_out.card.status = "CONFIRMED"
    /\ display_name(pi_out.card) = <<"Bolt">>

(***************************************************************************)
(* SpecApi: the check-in session of one cube, api/checkin.py, in one       *)
(* server process.  A request is one action.  What detection, OCR and      *)
(* matching make of an uploaded image is given with the request as one     *)
(* outcome per detected box.                                               *)
(***************************************************************************)
MaxRequests == 3

\* The services of the CubeCheckinService a request builds.
ApiEnv ==
    [tesseract |-> TRUE, engine |-> "Lightnng Bot", rapidfuzz |-> TRUE,
     threshold |-> 70, names |-> <<<<"Bolt">>>>, scores |-> <<8571>>]

UploadedImage(readable, boxes, fault) ==
    [op |-> "process_image", readable |-> readable, w |-> ProcW, h |-> ProcH,
     boxes |-> boxes, fault |-> fault, crop |-> NoCrop, env |-> ApiEnv]

\* The files a client uploads, with what detect_cards finds in them: no
\* readable image; no box; one usable box; a box too small and a usable one;
\* two usable boxes; two usable boxes, the pre-processing of the second
\* raising.
ApiUploads ==
    { UploadedImage(FALSE, <<>>, 0),
      UploadedImage(TRUE, <<>>, 0),
      UploadedImage(TRUE, <<<<0, 0, 10, 8>>>>, 0),
      UploadedImage(TRUE, <<<<4, 4, 6, 4>>, <<0, 0, 10, 8>>>>, 0),
      UploadedImage(TRUE, <<<<0, 0, 10, 8>>, <<0, 0, 10, 8>>>>, 0),
      UploadedImage(TRUE, <<<<0, 0, 10, 8>>, <<0, 0, 10, 8>>>>, 2) }

PatchNames == {None, <<>>, <<"Bolt">>}

\* The Card row of a candidate: models/__init__.py, confirmed_name is null
\* until the card is edited; image is the upload the card was detected in.
NewCard(id, image, candidate) ==
    [id |-> id, image |-> image,
     raw_ocr_text |-> candidate.raw_ocr_text,
     recognized_name |-> candidate.recognized_name,
     match_score |-> candidate.match_score,
     confirmed_name |-> None,
     status |-> candidate.status,
     bbox |-> candidate.bbox]

\* The inserts of checkin.py lines 139-141: the rows of the candidates, ids
\* counted from id.
NewCards(candidates, id, image) ==
    [k \in 1..Len(candidates) |-> NewCard(id + k - 1, image, candidates[k])]

CardIds == {api_cards[i].id : i \in 1..Len(api_cards)}

RECURSIVE CountConfirmedNames(_)
CountConfirmedNames(cards) ==
    IF cards = <<>> THEN 0
    ELSE (IF Head(cards).confirmed_name \notin {None, <<>>} THEN 1 ELSE 0)
             + CountConfirmedNames(Tail(cards))

\* _get_service, checkin.py lines 41-50: a new CubeCheckinService, whose
\* constructor builds a CardDatabaseService and loads its catalog
\* (cube_checkin_service.py lines 59 and 65).
_get_service(builds) == builds + 1

InitApi ==
    /\ ApiIdle
    /\ ProcIdle
    /\ CmIdle
    /\ PruneIdle
    /\ NmsIdle
    /\ DetIdle
    /\ EnvIdle
    /\ RsIdle

RespondError(op, code, error) ==
    /\ api_resp' = [op |-> op, code |-> code, error |-> error]
    /\ api_reqs' = api_reqs + 1

Respond(op, code) == RespondError(op, code, "")

\* POST upload, _handle_upload and its route, lines 119-171.  The file is
\* saved and source_image_path committed (lines 131-134) before the service
\* is built and the image processed; an exception of process_image is
\* answered 500 after a rollback, which has nothing left to undo.
\* render_annotated_image changes no row, whatever it returns.
Upload ==
    /\ api_reqs < MaxRequests
    /\ \E file_ok \in BOOLEAN, upload \in ApiUploads :
         IF ~file_ok
         THEN /\ Respond("upload", 400)
              /\ UNCHANGED <<api_cube, api_cards, api_images, api_next, api_builds>>
         ELSE LET image  == Len(api_images) + 1
                  result == process_image(upload)
                  cards  == NewCards(result.cards, api_next, image)
              IN  /\ api_images' = Append(api_images, upload.readable)
                  /\ api_builds' = _get_service(api_builds)
                  /\ IF result.raised
                     THEN /\ api_cube' = [api_cube EXCEPT !.source_image_path = image]
                          /\ UNCHANGED <<api_cards, api_next>>
                          /\ RespondError("upload", 500,
                                          IF upload.readable THEN "box"
                                                             ELSE "unreadable")
                     ELSE /\ api_cube' = [api_cube EXCEPT
                                              !.source_image_path = image,
                                              !.annotated_image_path = image]
                          /\ api_cards' = api_cards \o cards
                          /\ api_next' = api_next + Len(cards)
                          /\ Respond("upload", 200)
    /\ UNCHANGED <<prune_vars, nms_vars, det_vars, env_vars, rs_vars, proc_vars,
                   cm_vars>>

\* POST detect-region, lines 196-275.  DetectionService has no
\* detect_card_in_region: line 213 raises AttributeError, answered 500.
DetectRegion ==
    /\ api_reqs < MaxRequests
    /\ \E has_bbox \in BOOLEAN :
         Respond("detect-region",
                 IF ~has_bbox THEN 400
                 ELSE IF api_cube.source_image_path = 0 THEN 422
                 ELSE 500)
    /\ UNCHANGED <<api_cube, api_cards, api_images, api_next, api_builds,
                   prune_vars, nms_vars, det_vars, env_vars, rs_vars, proc_vars, cm_vars>>

\* PATCH cards/<card_id>, lines 317-324, with update_card_name,
\* cube_checkin_service.py lines 207-210.
UpdateCard ==
    /\ api_reqs < MaxRequests
    /\ \E id \in 1..api_next, has_name \in BOOLEAN, name \in PatchNames :
         IF id \notin CardIds
         THEN /\ Respond("patch", 404)
              /\ UNCHANGED <<api_cards, api_builds>>
         ELSE IF ~has_name
         THEN /\ Respond("patch", 200)
              /\ UNCHANGED <<api_cards, api_builds>>
         ELSE /\ api_builds' = _get_service(api_builds)
              /\ api_cards' =
                   [i \in 1..Len(api_cards) |->
                       IF api_cards[i].id = id
                       THEN update_card_name(api_cards[i], name)
                       ELSE api_cards[i]]
              /\ Respond("patch", 200)
    /\ UNCHANGED <<api_cube, api_images, api_next,
                   prune_vars, nms_vars, det_vars, env_vars, rs_vars, proc_vars, cm_vars>>

\* DELETE cards/<card_id>, lines 327-333.
DeleteCard ==
    /\ api_reqs < MaxRequests
    /\ \E id \in 1..api_next :
         IF id \notin CardIds
         THEN /\ Respond("delete", 404)
              /\ UNCHANGED api_cards
         ELSE /\ api_cards' = SelectSeq(api_cards, LAMBDA c : c.id # id)
              /\ Respond("delete", 200)
    /\ UNCHANGED <<api_cube, api_images, api_next, api_builds,
                   prune_vars, nms_vars, det_vars, env_vars, rs_vars, proc_vars, cm_vars>>

\* POST finalize, lines 359-364, with finalize_cube,
\* cube_checkin_service.py lines 212-216.
Finalize ==
    /\ api_reqs < MaxRequests
    /\ api_builds' = _get_service(api_builds)
    /\ api_cube' = [api_cube EXCEPT !.status = "CHECKED_IN",
                                    !.total_cards = Len(api_cards),
                                    !.cards_confirmed = CountConfirmedNames(api_cards)]
    /\ Respond("finalize", 200)
    /\ UNCHANGED <<api_cards, api_images, api_next,
                   prune_vars, nms_vars, det_vars, env_vars, rs_vars, proc_vars, cm_vars>>

NextApi ==
    \/ Upload
    \/ DetectRegion
    \/ UpdateCard
    \/ DeleteCard
    \/ Finalize

SpecApi == InitApi /\ [][NextApi]_vars

\* C6 as stated: in one process, across any sequence of uploads, region
\* analyses, card edits and finalizations, the catalog is built at most
\* once.  Every upload, every edit of a name and every finalization builds
\* a service of its own and with it a catalog.
C6_CatalogBuiltAtMostOnce == api_builds <= 1

\* C13 as stated: an upload whose image cannot be read fails as a whole: the
\* error is reported and the persisted state of the cube, its cards, its
\* source image path and its annotated image path, is the same as before.
\* _handle_upload commits source_image_path before it reads the image.
C13_UnreadableUploadChangesNothing ==
    [][(/\ api_reqs' = api_reqs + 1
        /\ api_resp'.op = "upload"
        /\ api_resp'.error = "unreadable") =>
           /\ api_resp'.code = 500
           /\ api_cards' = api_cards
           /\ api_cube' = api_cube]_vars

(***************************************************************************)
(* Further claims on the catalog load (SpecResolver).                      *)
(***************************************************************************)
\* The catalog has been assigned by a completed run of the body of _load.
CatalogAssigned == rs_loaded \/ \E t \in Threads : rs_pc[t] = "mark"

\* The texts of the name-bearing items that _load reads: those of readable
\* files, up to the item that makes the parse of its file fail.
RECURSIVE ReadItems(_, _)
ReadItems(file, i) ==
    IF i > Len(file.items) \/ ~file.ok \/ file.shape = "other" THEN {}
    ELSE IF file.items[i].type = "badname" THEN {}
    ELSE (IF \/ file.items[i].type \in {"obj", "line"}
             \/ file.items[i].type = "str" /\ file.shape = "list"
          THEN {file.items[i].text.faces} ELSE {})
             \cup ReadItems(file, i + 1)

SourceEntries(folder) ==
    UNION {ReadItems(folder.files[i], 1) : i \in 1..Len(folder.files)}

\* C11 as stated: the loaded catalog is duplicate-free and, for every
\* multi-faced entry 'A // B' found in any source, holds the first face 'A'
\* and no entry of more than one face.  _load splits only the 'name' of a
\* JSON object; a JSON string item or a line of a text file is kept whole.
C11_OnlyFirstFacesRetained ==
    CatalogAssigned =>
        /\ \A i, j \in 1..Len(rs_names) : rs_names[i] = rs_names[j] => i = j
        /\ \A i \in 1..Len(rs_names) : Len(rs_names[i]) <= 1
        /\ \A e \in SourceEntries(db_folder) :
               Len(e) >= 1 => \E i \in 1..Len(rs_names) : rs_names[i] = <<e[1]>>

\* A file that is read, parsed and iterated without an exception.
FileIntact(file) ==
    /\ file.ok
    /\ \A j \in 1..Len(file.items) : file.items[j].type # "badname"

\* The names an intact file holds: the front face of the 'name' of each JSON
\* object, each string item of a JSON list and each name line of a text file.
NamesHeld(file) ==
    {IF file.items[j].type = "obj" THEN FrontFace(file.items[j].text)
                                   ELSE Strip(file.items[j].text) :
        j \in {k \in 1..Len(file.items) :
                  \/ file.items[k].type = "obj" /\ file.shape \in {"list", "data"}
                  \/ file.items[k].type = "str" /\ file.shape = "list"
                  \/ file.items[k].type = "line"}}

\* C15: a source file whose reading or parsing fails is skipped and the load
\* completes: every name of every other source file that is read without
\* failure is in the resulting catalog, a file that cannot be read adds
\* nothing, and the catalog gets marked loaded.
C15_FailedFileIsSkipped ==
    CatalogAssigned =>
        /\ \A i \in 1..Len(db_folder.files) :
               FileIntact(db_folder.files[i]) =>
                   NamesHeld(db_folder.files[i]) \subseteq Range(rs_names)
        /\ Range(rs_names) \subseteq
               UNION {IF db_folder.files[i].ok
                      THEN {it.text.faces : it \in Range(db_folder.files[i].items)}
                               \cup {FrontFace(it.text) :
                                        it \in Range(db_folder.files[i].items)}
                      ELSE {} : i \in 1..Len(db_folder.files)}

\* The load of a folder with one unreadable JSON file and one text file has
\* completed: the catalog is marked loaded and holds the names of the text
\* file.
C15_Witness ==
    /\ rs_loaded
    /\ \E i \in 1..Len(db_folder.files) : ~db_folder.files[i].ok
    /\ \E i \in 1..Len(db_folder.files) :
           /\ FileIntact(db_folder.files[i])
           /\ NamesHeld(db_folder.files[i]) # {}
           /\ NamesHeld(db_folder.files[i]) \subseteq Range(rs_names)
    /\ \A t \in Threads : rs_pc[t] = "idle"

(***************************************************************************)
(* A further claim on the Peak Pruner (SpecPrune).                         *)
(***************************************************************************)
\* C20 as stated: the gap compared with the two thresholds is the distance
\* from the previous kept peak, hence any two consecutive peaks of the
\* output are separated by a gap between 0.55 and 1.55 times the typical
\* gap.  Line 328 takes the gap from peaks[i - 1], the previous input peak,
\* kept or not.
C20_OutputGapsWithinThresholds ==
    (pk_pc = "done" /\ Len(pk_in) >= 3) =>
        \A k \in 1..(Len(pk_out) - 1) :
            /\ ~Gt155(pk_out[k + 1] - pk_out[k], TypicalGap2(pk_in))
            /\ ~Lt055(pk_out[k + 1] - pk_out[k], TypicalGap2(pk_in))

(***************************************************************************)
(* The configuration of the command-line tracker: cube_card_tracker,       *)
(* config.py (AppConfig and its parts) and config_manager.py               *)
(* (ConfigManager).                                                        *)
(*                                                                         *)
(* A scalar value is [t, v]: its Python type and its text.  A dict is a     *)
(* function on its keys, a list a sequence, a count an integer.            *)
(***************************************************************************)
Str(x)   == [t |-> "str", v |-> x]
PathV(x) == [t |-> "Path", v |-> x]
Dt(x)    == [t |-> "datetime", v |-> x]
NoneV    == [t |-> "None", v |-> ""]

\* The time datetime.now() returns, as isoformat writes it, and the texts
\* datetime.fromisoformat accepts.
Now == "2024-01-01T10:00:00"
IsoTexts == {Now}

\* The texts of the image counts a registration can report, and the other
\* text YAML reads as an int.
IntTexts == {"0", "2", "123"}

\* The names given to cubes, users and image sets.
CubeNames     == {"123", "created_at"}
UserNames     == {"Alice", "null"}
ImageSetNames == {"alice_set", "last_updated"}

\* Every scalar of a configuration and of its file: a typed value in
\* memory, a text with its style ("plain" or "quoted") in the file.
Scalars ==
    [t : {"str", "Path", "datetime", "None", "int", "plain", "quoted",
          "unwritable", "invalid"},
     v : {"", "null", "my_cube", "Default cube configuration", "Cube",
          "data", "images", Now} \cup IntTexts \cup CubeNames \cup UserNames
            \cup ImageSetNames]

\* The declared type of each field of CubeConfig (config.py lines 70-87),
\* UserConfig (lines 35-41) and ImageSetConfig (lines 16-23); a field name
\* the three share has the same type in each.
FieldType ==
    [name |-> "str", description |-> "Optional str", database_path |-> "Path",
     image_sets |-> "List", owners |-> "List", created_at |-> "datetime",
     last_updated |-> "Optional datetime", total_cards |-> "int",
     email |-> "Optional str", directory |-> "Path", owner |-> "str",
     registered_at |-> "Optional datetime", num_cards |-> "Optional int"]

\* The function f applied to every scalar of one CubeConfig, UserConfig or
\* ImageSetConfig: a list of names elementwise, an int count untouched.
MapEntry(f, r) ==
    [k \in DOMAIN r |->
        IF FieldType[k] = "List" THEN [i \in 1..Len(r[k]) |-> f[r[k][i]]]
        ELSE IF FieldType[k] = "int" THEN r[k]
        ELSE f[r[k]]]

\* The function f applied to every scalar of an AppConfig (config.py lines
\* 98-118); the recognition numbers are left as they are.
MapConfig(f, config) ==
    [active_cube |-> f[config.active_cube],
     cubes |-> [k \in DOMAIN config.cubes |-> MapEntry(f, config.cubes[k])],
     users |-> [k \in DOMAIN config.users |-> MapEntry(f, config.users[k])],
     image_sets |-> [k \in DOMAIN config.image_sets |->
                        MapEntry(f, config.image_sets[k])],
     recognition |-> config.recognition,
     data_directory |-> f[config.data_directory]]

\* The scalars of an AppConfig or of a tree of its shape.
ScalarsOf(config) ==
    LET entry(r) == UNION {IF FieldType[k] = "List" THEN Range(r[k])
                           ELSE IF FieldType[k] = "int" THEN {}
                           ELSE {r[k]} : k \in DOMAIN r}
    IN  {config.active_cube, config.data_directory}
            \cup UNION {entry(config.cubes[k]) : k \in DOMAIN config.cubes}
            \cup UNION {entry(config.users[k]) : k \in DOMAIN config.users}
            \cup UNION {entry(config.image_sets[k]) :
                            k \in DOMAIN config.image_sets}

\* config.model_dump(mode='python') followed by _serialize_for_storage,
\* lines 85-86 and 136-155: every Path and datetime becomes a str.
_serialize_for_storage(data) ==
    MapConfig([x \in Scalars |->
                  IF x.t \in {"Path", "datetime"} THEN Str(x.v) ELSE x], data)

\* The type a YAML plain (unquoted) scalar of this text resolves to.
YamlResolve(text) ==
    IF text \in {"null", ""} THEN "None"
    ELSE IF text \in IntTexts THEN "int"
    ELSE IF text \in IsoTexts THEN "datetime"
    ELSE "str"

\* A mutant of DumpScalar: YAML strings are never quoted.
DumpScalar_plain(fmt, x) ==
    IF x.t = "str"
    THEN [t |-> IF fmt = "json" THEN "quoted" ELSE "plain", v |-> x.v]
    ELSE IF x.t = "None" THEN [t |-> "plain", v |-> "null"]
    ELSE IF x.t = "int" THEN [t |-> "plain", v |-> x.v]
    ELSE [t |-> "unwritable", v |-> x.v]

\* One scalar as yaml.safe_dump / json.dump write it (lines 92-97): a str in
\* quotes when JSON, or when YAML would read the bare text as something
\* else; None as null; an int bare.  A Path or a datetime cannot be written.
DumpScalar(fmt, x) ==
    IF x.t = "str"
    THEN [t |-> IF fmt = "json" \/ YamlResolve(x.v) # "str"
                THEN "quoted" ELSE "plain",
          v |-> x.v]
    ELSE IF x.t = "None" THEN [t |-> "plain", v |-> "null"]
    ELSE IF x.t = "int" THEN [t |-> "plain", v |-> x.v]
    ELSE [t |-> "unwritable", v |-> x.v]

\* One scalar as yaml.safe_load / json.load read it (lines 53-58).
LoadScalar(fmt, s) ==
    IF s.t = "quoted" THEN Str(s.v)
    ELSE IF YamlResolve(s.v) = "str" THEN Str(s.v)
    ELSE [t |-> YamlResolve(s.v), v |-> IF s.v = "null" THEN "" ELSE s.v]

\* _deserialize_datetimes, lines 157-185, on the loaded tree: under the keys
\* created_at, last_updated and registered_at a str that fromisoformat
\* accepts becomes a datetime.  A dict entry whose own KEY is one of the
\* three is not a str and is taken as it is, without descending into it.
_deserialize_datetimes(data) ==
    LET DatetimeKeys == {"created_at", "last_updated", "registered_at"}
        field(x) == IF x.t = "str" /\ x.v \in IsoTexts THEN Dt(x.v) ELSE x
        entry(key, r) ==
            IF key \in DatetimeKeys THEN r
            ELSE [k \in DOMAIN r |->
                     IF k \in DatetimeKeys THEN field(r[k]) ELSE r[k]]
    IN  [data EXCEPT
            !.cubes = [k \in DOMAIN @ |-> entry(k, @[k])],
            !.users = [k \in DOMAIN @ |-> entry(k, @[k])],
            !.image_sets = [k \in DOMAIN @ |-> entry(k, @[k])]]

\* pydantic's validation of one value against the declared type of its
\* field: the value the model holds, or Invalid.
Invalid == [t |-> "invalid", v |-> ""]

Coerce(type, x) ==
    IF type \in {"Optional str", "Optional datetime", "Optional int"}
       /\ x.t = "None" THEN x
    ELSE IF type \in {"str", "Optional str"}
    THEN IF x.t = "str" THEN x ELSE Invalid
    ELSE IF type = "Path"
    THEN IF x.t = "Path" THEN x
         ELSE IF x.t = "str" THEN PathV(x.v) ELSE Invalid
    ELSE IF type \in {"datetime", "Optional datetime"}
    THEN IF x.t = "datetime" THEN x
         ELSE IF x.t = "str" /\ x.v \in IsoTexts THEN Dt(x.v) ELSE Invalid
    ELSE IF x.t = "int" THEN x ELSE Invalid

\* AppConfig(**data), line 65: the validated model.
ValidateConfig(data) ==
    LET entry(r) ==
            [k \in DOMAIN r |->
                IF FieldType[k] = "List"
                THEN [i \in 1..Len(r[k]) |-> Coerce("str", r[k][i])]
                ELSE IF FieldType[k] = "int" THEN r[k]
                ELSE Coerce(FieldType[k], r[k])]
    IN  [active_cube |-> Coerce("str", data.active_cube),
         cubes |-> [k \in DOMAIN data.cubes |-> entry(data.cubes[k])],
         users |-> [k \in DOMAIN data.users |-> entry(data.users[k])],
         image_sets |-> [k \in DOMAIN data.image_sets |->
                            entry(data.image_sets[k])],
         recognition |-> data.recognition,
         data_directory |-> Coerce("Path", data.data_directory)]

\* The keys of the three dicts of a configuration.
KeysOf(config) ==
    DOMAIN config.cubes \cup DOMAIN config.users \cup DOMAIN config.image_sets

\* ConfigManager.save, lines 68-101, for a .yaml or .json path: what the
\* file holds afterwards (its scalars and its dict keys as written), or the
\* failure of the dump.
save(fmt, config) ==
    LET data == _serialize_for_storage(config)
        tree == MapConfig([x \in Scalars |-> DumpScalar(fmt, x)], data)
        keys == [k \in KeysOf(config) |-> DumpScalar(fmt, Str(k))]
    IN  IF \E s \in ScalarsOf(tree) : s.t = "unwritable"
        THEN [ok |-> FALSE, tree |-> <<>>, keys |-> <<>>]
        ELSE [ok |-> TRUE, tree |-> tree, keys |-> keys]

\* ConfigManager.load, lines 35-66, of an existing file: the AppConfig, or
\* the failure of its validation (a dict key that is not a str, a value
\* that is not of its field's type).
load(fmt, file) ==
    LET read   == [s \in Scalars |-> LoadScalar(fmt, s)]
        data   == _deserialize_datetimes(MapConfig(read, file.tree))
        config == ValidateConfig(data)
    IN  IF /\ \A k \in DOMAIN file.keys : read[file.keys[k]] = Str(k)
           /\ Invalid \notin ScalarsOf(config)
        THEN [ok |-> TRUE, config |-> config]
        ELSE [ok |-> FALSE, config |-> <<>>]

\* RecognitionConfig's defaults, config.py lines 44-64; the ratio in
\* hundredths.
RecognitionDefaults ==
    [min_matches |-> 20, orb_features |-> 2000, ratio_test_threshold |-> 75]

\* CubeConfig as create_default (lines 116-123) and add_cube (lines 233-239)
\* build it: the database path is derived from the name.
NewCubeConfig(name, description) ==
    [name |-> Str(name), description |-> Str(description),
     database_path |-> PathV(name), image_sets |-> <<>>, owners |-> <<>>,
     created_at |-> Dt(Now), last_updated |-> NoneV, total_cards |-> 0]

\* create_default, lines 103-134.
create_default(cube_name) ==
    [active_cube |-> Str(cube_name),
     cubes |-> [k \in {cube_name} |->
                   NewCubeConfig(cube_name, "Default cube configuration")],
     users |-> [k \in {} |-> <<>>],
     image_sets |-> [k \in {} |-> <<>>],
     recognition |-> RecognitionDefaults,
     data_directory |-> PathV("data")]

\* dict[key] = value
Put(dict, key, value) ==
    [k \in DOMAIN dict \cup {key} |-> IF k = key THEN value ELSE dict[k]]

\* AppConfig.add_cube, config.py lines 130-134.
add_cube(config, cube) ==
    LET c == [config EXCEPT !.cubes = Put(@, cube.name.v, cube)]
    IN  IF c.active_cube.v = "" THEN [c EXCEPT !.active_cube = cube.name] ELSE c

\* AppConfig.add_user, config.py lines 136-138.
add_user(config, user) == [config EXCEPT !.users = Put(@, user.name.v, user)]

\* A mutant of add_image_set: the name is appended whether listed or not.
add_image_set_append(config, image_set) ==
    LET c     == [config EXCEPT !.image_sets = Put(@, image_set.name.v, image_set)]
        owner == image_set.owner.v
    IN  IF owner \in DOMAIN c.users
        THEN [c EXCEPT !.users[owner].image_sets = Append(@, image_set.name)]
        ELSE c

\* AppConfig.add_image_set, config.py lines 140-147.
add_image_set(config, image_set) ==
    LET c     == [config EXCEPT !.image_sets = Put(@, image_set.name.v, image_set)]
        owner == image_set.owner.v
    IN  IF owner \in DOMAIN c.users
           /\ image_set.name \notin Range(c.users[owner].image_sets)
        THEN [c EXCEPT !.users[owner].image_sets = Append(@, image_set.name)]
        ELSE c

(***************************************************************************)
(* SpecConfig: one ConfigManager on a .yaml or .json path, after           *)
(* create_default("my_cube").                                              *)
(***************************************************************************)
MaxConfigOps == 5

InitConfig ==
    /\ cm_config = create_default("my_cube")
    /\ \E fmt \in {"yaml", "json"} :
           cm_file = [exists |-> FALSE, fmt |-> fmt, tree |-> <<>>,
                      keys |-> <<>>]
    /\ cm_saved = <<>>
    /\ cm_last = [op |-> "create_default", ok |-> TRUE, name |-> "",
                  owner |-> "", registered |-> FALSE, count |-> 0]
    /\ tr_engine = <<>>
    /\ PruneIdle
    /\ NmsIdle
    /\ DetIdle
    /\ EnvIdle
    /\ RsIdle
    /\ ApiIdle
    /\ ProcIdle

Done(op, ok, name, owner, registered) ==
    cm_last' = [op |-> op, ok |-> ok, name |-> name, owner |-> owner,
                registered |-> registered, count |-> cm_last.count + 1]

OtherIdle ==
    UNCHANGED <<prune_vars, nms_vars, det_vars, env_vars, rs_vars, api_vars,
                proc_vars, tr_engine>>

\* ConfigManager.add_cube, lines 217-242.
AddCube ==
    /\ cm_last.count < MaxConfigOps
    /\ \E name \in CubeNames :
         /\ cm_config' = add_cube(cm_config, NewCubeConfig(name, "Cube"))
         /\ Done("add_cube", TRUE, name, "", FALSE)
    /\ UNCHANGED <<cm_file, cm_saved>>
    /\ OtherIdle

\* ConfigManager.add_user, lines 244-266.
AddUser ==
    /\ cm_last.count < MaxConfigOps
    /\ \E name \in UserNames :
         /\ cm_config' = add_user(cm_config,
                                  [name |-> Str(name), email |-> NoneV,
                                   image_sets |-> <<>>, total_cards |-> 0])
         /\ Done("add_user", TRUE, name, "", FALSE)
    /\ UNCHANGED <<cm_file, cm_saved>>
    /\ OtherIdle

\* ConfigManager.add_image_set, lines 268-295.
AddImageSet ==
    /\ cm_last.count < MaxConfigOps
    /\ \E name \in ImageSetNames, owner \in UserNames :
         /\ cm_config' = add_image_set(cm_config,
                                       [name |-> Str(name),
                                        directory |-> PathV("images"),
                                        owner |-> Str(owner),
                                        registered_at |-> Dt(Now),
                                        num_cards |-> NoneV])
         /\ Done("add_image_set", TRUE, name, owner,
                 owner \in DOMAIN cm_config.users)
    /\ UNCHANGED <<cm_file, cm_saved>>
    /\ OtherIdle

\* ConfigManager.save(), lines 68-101, of the configuration in memory.
Save ==
    /\ cm_last.count < MaxConfigOps
    /\ LET r == save(cm_file.fmt, cm_config)
       IN  IF r.ok
           THEN /\ cm_file' = [cm_file EXCEPT !.exists = TRUE, !.tree = r.tree,
                                                !.keys = r.keys]
                /\ cm_saved' = cm_config
                /\ Done("save", TRUE, "", "", FALSE)
           ELSE /\ cm_file' = [cm_file EXCEPT !.exists = TRUE, !.tree = <<>>,
                                                !.keys = <<>>]
                /\ cm_saved' = <<>>
                /\ Done("save", FALSE, "", "", FALSE)
    /\ UNCHANGED cm_config
    /\ OtherIdle

\* ConfigManager.load(), lines 35-66.  A file that does not exist raises
\* FileNotFoundError, one that a failed save left empty does not validate.
Load ==
    /\ cm_last.count < MaxConfigOps
    /\ IF ~cm_file.exists \/ cm_file.tree = <<>>
       THEN /\ Done("load", FALSE, "", "", FALSE)
            /\ UNCHANGED cm_config
       ELSE LET r == load(cm_file.fmt, cm_file)
            IN  IF r.ok
                THEN /\ cm_config' = r.config
                     /\ Done("load", TRUE, "", "", FALSE)
                ELSE /\ Done("load", FALSE, "", "", FALSE)
                     /\ UNCHANGED cm_config
    /\ UNCHANGED <<cm_file, cm_saved>>
    /\ OtherIdle

NextConfig == AddCube \/ AddUser \/ AddImageSet \/ Save \/ Load

SpecConfig == InitConfig /\ [][NextConfig]_vars

\* C18: saving a configuration to a YAML or JSON file and loading it back
\* is a round trip: the load succeeds and the loaded AppConfig has the same
\* active_cube, cubes, users and image sets as the saved one.
C18_SaveLoadRoundTrip ==
    /\ (cm_last.op = "save" => cm_last.ok)
    /\ (cm_last.op = "load" /\ cm_file.exists) =>
           /\ cm_last.ok
           /\ cm_config.active_cube = cm_saved.active_cube
           /\ cm_config.cubes = cm_saved.cubes
           /\ cm_config.users = cm_saved.users
           /\ cm_config.image_sets = cm_saved.image_sets

\* A configuration with a cube named "123", a user named "null" and an image
\* set named "last_updated" has been saved to a YAML file and loaded back.
C18_Witness ==
    /\ cm_last.op = "load"
    /\ cm_last.ok
    /\ cm_file.fmt = "yaml"
    /\ "123" \in DOMAIN cm_config.cubes
    /\ "null" \in DOMAIN cm_config.users
    /\ "last_updated" \in DOMAIN cm_config.image_sets
    /\ cm_config.cubes["123"].created_at = Dt(Now)
    /\ cm_config = cm_saved

\* How many times the name occurs in the list.
Occurrences(list, x) == Cardinality({i \in 1..Len(list) : list[i] = x})

\* C19: after add_image_set(s) with s.owner a registered user, s.name is a
\* key of config.image_sets and occurs exactly once in the image_sets of
\* that user, however many times the set has been added.
C19_ImageSetListedOnce ==
    (cm_last.op = "add_image_set" /\ cm_last.registered) =>
        /\ cm_last.name \in DOMAIN cm_config.image_sets
        /\ Occurrences(cm_config.users[cm_last.owner].image_sets,
                       Str(cm_last.name)) = 1

\* The same set has been added three times for a registered owner.
C19_Witness ==
    /\ cm_last.op = "add_image_set"
    /\ cm_last.registered
    /\ cm_last.count = 4
    /\ cm_last.name = "alice_set"
    /\ cm_last.owner = "Alice"
    /\ cm_config.users["Alice"].image_sets = <<Str("alice_set")>>
    /\ cm_config.image_sets["alice_set"].owner = Str("Alice")

(***************************************************************************)
(* A further claim on the Overlap Suppressor.                              *)
(***************************************************************************)
\* Position i comes before position j in the order of the suppressor: larger
\* area first, equal areas in input order.
PrecedesInOrder(boxes, i, j) ==
    \/ BoxArea(boxes[i]) > BoxArea(boxes[j])
    \/ BoxArea(boxes[i]) = BoxArea(boxes[j]) /\ i < j

\* The lists of distinct positions of a list of n boxes.
PositionLists(n) ==
    UNION {{s \in [1..m -> 1..n] : \A a, b \in 1..m : a # b => s[a] # s[b]} :
               m \in 0..n}

\* C21: the output of _nms is the input at a list of kept positions such
\* that every position left out has intersection-over-union at or above
\* the threshold with a kept position that precedes it in the order (area
\* descending, then input position ascending); the first position of
\* maximal area is kept, and so is every position whose box is below the
\* threshold with every other box.
C21_GreedyLargestFirst ==
    nms_pc = "done" =>
        \E kept \in PositionLists(Len(nms_in)) :
            /\ nms_out = [k \in 1..Len(kept) |-> nms_in[kept[k]]]
            /\ \A j \in (1..Len(nms_in)) \ Range(kept) :
                  \E i \in Range(kept) :
                      /\ PrecedesInOrder(nms_in, i, j)
                      /\ ~IoUBelow(nms_in[i], nms_in[j], nms_thr)
            /\ \A j \in 1..Len(nms_in) :
                  (\A i \in (1..Len(nms_in)) \ {j} :
                        PrecedesInOrder(nms_in, j, i)) => kept[1] = j
            /\ \A j \in 1..Len(nms_in) :
                  (\A i \in (1..Len(nms_in)) \ {j} :
                        IoUBelow(nms_in[i], nms_in[j], nms_thr))
                      => j \in Range(kept)

\* Two different boxes of equal area overlap at the threshold: the one
\* given first is kept, the other is not, and a third, apart, is kept.
C21_Witness ==
    /\ nms_pc = "done"
    /\ nms_thr = <<1, 2>>
    /\ nms_in = <<(<<1, 0, 3, 2>>), (<<0, 0, 3, 2>>), (<<0, 1, 1, 1>>)>>
    /\ nms_out = <<(<<1, 0, 3, 2>>), (<<0, 1, 1, 1>>)>>

(***************************************************************************)
(* Further claims about detect_cards, checked under SpecDetect.            *)
(***************************************************************************)
\* The width of region i of the image, as line 219 computes it.
ColWidth(i) ==
    ColBounds(det_img.seps, det_img.w)[i + 1]
        - ColBounds(det_img.seps, det_img.w)[i]

\* fallback_title_h when the iteration for region i begins.
FallbackBefore(i) ==
    IF i = 1 THEN det_cfg.title_min_px ELSE det_log[i - 1].fallback

\* The strip of region i has a column, so that its mean brightness is a
\* number.
HasStrip(i) ==
    LET bounds == ColBounds(det_img.seps, det_img.w)
    IN  ~StripEmpty(bounds[i] + det_cfg.col_x_padding,
                    bounds[i + 1] - det_cfg.col_x_padding, det_img.w)

\* C22: the gate is width, then mean brightness, then peak count.  A region
\* has boxes only if its width is at least col_min_width_px, its mean
\* brightness at least col_min_mean_brightness and _find_title_peaks
\* returned at least col_min_peaks peaks; the first stage that fails
\* rejects the region and no later stage is evaluated; a rejected region
\* appends no box and leaves fallback_title_h as it was; and every box
\* returned belongs to an accepted region.
C22_ThreeStageGate ==
    det_pc = "done" =>
        /\ \A i \in 1..Len(det_log) :
             LET L == det_log[i]
                 narrow == ColWidth(i) < det_cfg.col_min_width_px
                 dark   == HasStrip(i) /\ det_img.cols[i].bright
                                            < det_cfg.col_min_mean_brightness
             IN  /\ L.boxes # <<>> =>
                       /\ ColWidth(i) >= det_cfg.col_min_width_px
                       /\ det_img.cols[i].bright
                              >= det_cfg.col_min_mean_brightness
                       /\ Len(L.peaks) >= det_cfg.col_min_peaks
                 /\ narrow => L.gate = "width" /\ L.stages = <<"width">>
                 /\ (~narrow /\ dark) =>
                       /\ L.gate = "brightness"
                       /\ L.stages = <<"width", "brightness">>
                 /\ (~narrow /\ ~dark
                         /\ Len(L.peaks) < det_cfg.col_min_peaks) =>
                       L.gate = "peaks"
                 /\ L.gate # "accepted" =>
                       L.boxes = <<>> /\ L.fallback = FallbackBefore(i)
        /\ \A k \in 1..Len(det_boxes) :
              \E i \in 1..Len(det_log) :
                  /\ det_log[i].gate = "accepted"
                  /\ det_boxes[k] \in Range(det_log[i].boxes)

\* An image of two regions: the first is accepted and computes a strip
\* height, the second is dark although find_peaks would find peaks in it;
\* the boxes returned are those of the first.
C22_Witness ==
    /\ det_pc = "done"
    /\ Len(det_log) = 2
    /\ det_log[1].gate = "accepted"
    /\ det_log[1].fallback # det_cfg.title_min_px
    /\ det_log[2].gate = "brightness"
    /\ Len(det_img.cols[2].raw) >= det_cfg.col_min_peaks
    /\ det_log[2].fallback = det_log[1].fallback
    /\ det_boxes # <<>>

\* The strip height most recently computed for a region before region i,
\* title_min_px when none was.
LastComputedHeight(i) ==
    LET J == {j \in 1..(i - 1) : /\ det_log[j].gate = "accepted"
                                 /\ Len(det_log[j].peaks) >= 2}
    IN  IF J = {} THEN det_cfg.title_min_px ELSE det_log[MaxOfSet(J)].th

\* C23: for an accepted region with at least 2 peaks the strip height is
\* the mean gap between its peaks times title_fraction, truncated, then
\* clamped as max(title_min_px, min(., title_max_px)); with fewer than 2
\* peaks it is the height most recently computed for an earlier region
\* (title_min_px when there is none).  Each box of the region starts at
\* max(0, peak - peak_top_offset) and is that height tall, or ends at the
\* image bottom when that comes first.
C23_StripHeight ==
    det_pc = "done" =>
        \A i \in 1..Len(det_log) :
            det_log[i].gate = "accepted" =>
                LET L   == det_log[i]
                    n   == Len(L.peaks)
                    sum == L.peaks[n] - L.peaks[1]
                    num == det_cfg.title_fraction[1]
                    den == det_cfg.title_fraction[2]
                IN  /\ n >= 2 =>
                          \E raw \in 0..det_img.h :
                              /\ raw * den * (n - 1) <= sum * num
                              /\ sum * num < (raw + 1) * den * (n - 1)
                              /\ L.th = Max2(det_cfg.title_min_px,
                                             Min2(raw, det_cfg.title_max_px))
                    /\ n < 2 => L.th = LastComputedHeight(i)
                    /\ Len(L.boxes) = n
                    /\ \A k \in 1..n :
                          LET ty1 == Max2(0, L.peaks[k] - det_cfg.peak_top_offset)
                          IN  /\ L.boxes[k][2] = ty1
                              /\ L.boxes[k][4] =
                                    IF ty1 + L.th <= det_img.h THEN L.th
                                    ELSE det_img.h - ty1

\* The first region has two peaks whose mean gap times the fraction is not
\* whole and computes a height inside the clamp; the second has one peak
\* and takes that height.
C23_Witness ==
    /\ det_pc = "done"
    /\ Len(det_log) = 2
    /\ det_log[1].gate = "accepted"
    /\ det_log[1].peaks = <<1, 4>>
    /\ det_cfg.title_min_px = 0
    /\ det_cfg.title_max_px = 6
    /\ det_log[1].th = 1
    /\ det_log[2].gate = "accepted"
    /\ Len(det_log[2].peaks) = 1
    /\ det_log[2].th = 1
    /\ det_log[2].boxes[1][4] = 1

(***************************************************************************)
(* Further claims on the Pipeline Orchestrator and Text Extraction,        *)
(* checked under SpecProcess.                                              *)
(***************************************************************************)
\* C24 as stated: render_annotated_image changes no field of any candidate,
\* does not raise, and returns false whenever it fails, that is whenever
\* it has not written the preview image.  A cv2.imwrite that returns False
\* goes unnoticed: the function returns true with no image written.
C24_RenderChangesNothingAndReportsFailure ==
    (pi_pc = "done" /\ pi_in.op = "render_annotated_image") =>
        /\ ~pi_out.raised
        /\ pi_out.cards = pi_in.cards
        /\ pi_out.ok = pi_out.written

\* The part of C24 on the candidates and on exceptions: whatever the image
\* and the cv2 calls do, the candidates are as before and nothing is raised.
C24_RenderChangesNoCandidate ==
    (pi_pc = "done" /\ pi_in.op = "render_annotated_image") =>
        /\ ~pi_out.raised
        /\ pi_out.cards = pi_in.cards
        /\ (~pi_in.readable \/ pi_in.cv2 = "raise") => ~pi_out.ok

\* C25 as stated: the text _clean returns holds only letters, spaces,
\* apostrophes and hyphens, no two whitespace characters in a row, and no
\* whitespace at its start or end.  The pattern of _clean keeps commas.
C25_CleanedTextIsPermitted ==
    (pi_pc = "done" /\ pi_in.op = "_clean") =>
        /\ \A i \in 1..Len(pi_out.text) :
              pi_out.text[i] \in {"a", " ", "'", "-"}
        /\ \A i \in 1..(Len(pi_out.text) - 1) :
              ~(pi_out.text[i] \in Whitespace /\ pi_out.text[i + 1] \in Whitespace)
        /\ pi_out.text # <<>> =>
              /\ pi_out.text[1] \notin Whitespace
              /\ pi_out.text[Len(pi_out.text)] \notin Whitespace

\* The part of C25 on whitespace, which holds: no run of whitespace, none
\* at the start or the end, and no character outside the kept set.
C25_CleanedTextIsTrimmed ==
    (pi_pc = "done" /\ pi_in.op = "_clean") =>
        /\ \A i \in 1..Len(pi_out.text) :
              pi_out.text[i] \in {"a", " ", "'", "-", ","}
        /\ \A i \in 1..(Len(pi_out.text) - 1) :
              ~(pi_out.text[i] \in Whitespace /\ pi_out.text[i + 1] \in Whitespace)
        /\ pi_out.text # <<>> =>
              /\ pi_out.text[1] \notin Whitespace
              /\ pi_out.text[Len(pi_out.text)] \notin Whitespace

(***************************************************************************)
(* Further claims on the check-in session, checked under SpecApi.          *)
(***************************************************************************)
\* C26 as stated: in every state of a session a card has status CONFIRMED
\* if and only if its confirmed name is not empty.  A PATCH whose
\* confirmed_name is null or the empty string sets the status CONFIRMED.
C26_ConfirmedIffNamed ==
    \A i \in 1..Len(api_cards) :
        api_cards[i].status = "CONFIRMED"
            <=> api_cards[i].confirmed_name \notin {None, <<>>}

\* C27 as stated: whenever the cube is CHECKED_IN its total_cards is the
\* number of its cards and its cards_confirmed the number of those with
\* status CONFIRMED.  The counts are written by finalize only; uploads,
\* edits and deletions after it, which nothing refuses, leave them stale,
\* and finalize counts the non-empty confirmed names, not the statuses.
C27_CountsMatchWhenCheckedIn ==
    api_cube.status = "CHECKED_IN" =>
        /\ api_cube.total_cards = Len(api_cards)
        /\ api_cube.cards_confirmed =
               Cardinality({i \in 1..Len(api_cards) :
                                api_cards[i].status = "CONFIRMED"})

\* C28 as stated: every card of the cube was detected in the image at
\* source_image_path.  An upload adds the cards of the new image and
\* deletes none of the earlier ones.
C28_CardsAreOfCurrentImage ==
    \A i \in 1..Len(api_cards) :
        api_cards[i].image = api_cube.source_image_path

(***************************************************************************)
(* The tracker (tracker.py): one CubeCardTracker over its ConfigManager.   *)
(* self.config and config_manager.config are the same AppConfig object.    *)
(***************************************************************************)
\* The names given to cubes through the tracker, and the names asked for.
TrackerCubeNames == {"", "123"}
SwitchNames      == TrackerCubeNames \cup {"my_cube", "created_at"}

\* How many images of a directory register_batch may register.
RegisteredCounts == {0, 2}

\* UserConfig as ConfigManager.add_user builds it (lines 257-262).
NewUserConfig(name) ==
    [name |-> Str(name), email |-> NoneV, image_sets |-> <<>>,
     total_cards |-> 0]

\* ImageSetConfig as ConfigManager.add_image_set builds it (lines 288-292).
NewImageSetConfig(name, owner) ==
    [name |-> Str(name), directory |-> PathV("images"), owner |-> Str(owner),
     registered_at |-> Dt(Now), num_cards |-> NoneV]

\* _initialize_recognition_engine, lines 54-66: the database path of the
\* engine it builds, the one of the active cube.
EngineDatabasePath(config) == config.cubes[config.active_cube.v].database_path

\* The file after config_manager.save() of the configuration.
SavedFile(file, config) ==
    LET r == save(file.fmt, config)
    IN  [file EXCEPT !.exists = TRUE, !.tree = r.tree, !.keys = r.keys]

\* register_image_set, lines 124-193: the error raised, the configuration
\* in memory afterwards and the configurations saved on the way, in order.
\* The owner is added (and saved) and the image set is added before the
\* directory is looked at.
register_image_set(config, name, dir_exists, owner, add_to_active_cube, registered) ==
    LET known  == owner \in DOMAIN config.users
        c1     == IF known THEN config
                  ELSE add_user(config, NewUserConfig(owner))
        first  == IF known THEN <<>> ELSE <<c1>>
        c2     == add_image_set(c1, NewImageSetConfig(name, owner))
        c3     == [c2 EXCEPT
                      !.image_sets[name].num_cards =
                          [t |-> "int", v |-> ToString(registered)],
                      !.users[owner].total_cards = @ + registered]
        active == c3.active_cube.v
        c4     == IF /\ add_to_active_cube
                     /\ active \in DOMAIN c3.cubes
                     /\ Str(name) \notin Range(c3.cubes[active].image_sets)
                  THEN [c3 EXCEPT
                           !.cubes[active].image_sets = Append(@, Str(name)),
                           !.cubes[active].owners =
                               IF Str(owner) \in Range(@) THEN @
                               ELSE Append(@, Str(owner)),
                           !.cubes[active].total_cards = @ + registered,
                           !.cubes[active].last_updated = Dt(Now)]
                  ELSE c3
    IN  IF ~dir_exists
        THEN [error |-> "ValueError", config |-> c2, saves |-> first]
        ELSE [error |-> "", config |-> c4, saves |-> first \o <<c4>>]

(***************************************************************************)
(* SpecTracker: a tracker on a .yaml or .json path after                   *)
(* initialize("my_cube"), under add_cube, switch_cube, add_user and        *)
(* register_image_set calls.                                               *)
(***************************************************************************)
MaxTrackerOps == 4

\* initialize, lines 43-52: create_default, save, the engine.
InitTracker ==
    /\ cm_config = create_default("my_cube")
    /\ \E fmt \in {"yaml", "json"} :
           cm_file = SavedFile([exists |-> FALSE, fmt |-> fmt, tree |-> <<>>,
                                keys |-> <<>>], cm_config)
    /\ cm_saved = cm_config
    /\ cm_last = [op |-> "initialize", error |-> "", name |-> "my_cube",
                  owner |-> "", dir_exists |-> TRUE, count |-> 0]
    /\ tr_engine = EngineDatabasePath(cm_config)
    /\ PruneIdle
    /\ NmsIdle
    /\ DetIdle
    /\ EnvIdle
    /\ RsIdle
    /\ ApiIdle
    /\ ProcIdle

Returned(op, error, name, owner, dir_exists) ==
    /\ cm_last' = [op |-> op, error |-> error, name |-> name, owner |-> owner,
                   dir_exists |-> dir_exists, count |-> cm_last.count + 1]
    /\ UNCHANGED <<prune_vars, nms_vars, det_vars, env_vars, rs_vars, api_vars,
                   proc_vars>>

\* CubeCardTracker.add_cube, lines 68-84: the cube is added and the
\* configuration saved; the engine is left as it is.
TrackerAddCube ==
    /\ cm_last.count < MaxTrackerOps
    /\ \E name \in TrackerCubeNames :
         /\ cm_config' = add_cube(cm_config, NewCubeConfig(name, "Cube"))
         /\ Returned("add_cube", "", name, "", TRUE)
    /\ cm_file' = SavedFile(cm_file, cm_config')
    /\ cm_saved' = cm_config'
    /\ UNCHANGED tr_engine

\* CubeCardTracker.switch_cube, lines 86-104.
SwitchCube ==
    /\ cm_last.count < MaxTrackerOps
    /\ \E cube_name \in SwitchNames :
         IF cube_name \notin DOMAIN cm_config.cubes
         THEN /\ Returned("switch_cube", "ValueError", cube_name, "", TRUE)
              /\ UNCHANGED <<cm_config, cm_file, cm_saved, tr_engine>>
         ELSE /\ cm_config' = [cm_config EXCEPT !.active_cube = Str(cube_name)]
              /\ tr_engine' = EngineDatabasePath(cm_config')
              /\ cm_file' = SavedFile(cm_file, cm_config')
              /\ cm_saved' = cm_config'
              /\ Returned("switch_cube", "", cube_name, "", TRUE)

\* CubeCardTracker.add_user, lines 106-122.
TrackerAddUser ==
    /\ cm_last.count < MaxTrackerOps
    /\ cm_config' = add_user(cm_config, NewUserConfig("Alice"))
    /\ cm_file' = SavedFile(cm_file, cm_config')
    /\ cm_saved' = cm_config'
    /\ Returned("add_user", "", "Alice", "", TRUE)
    /\ UNCHANGED tr_engine

\* CubeCardTracker.register_image_set, lines 124-193.
RegisterImageSet ==
    /\ cm_last.count < MaxTrackerOps
    /\ \E dir_exists \in BOOLEAN, add_to_active_cube \in BOOLEAN,
          registered \in RegisteredCounts :
         LET r == register_image_set(cm_config, "alice_set", dir_exists,
                                     "Alice", add_to_active_cube, registered)
         IN  /\ cm_config' = r.config
             /\ IF r.saves = <<>>
                THEN UNCHANGED <<cm_file, cm_saved>>
                ELSE /\ cm_saved' = r.saves[Len(r.saves)]
                     /\ cm_file' = SavedFile(cm_file, cm_saved')
             /\ Returned("register_image_set", r.error, "alice_set", "Alice",
                         dir_exists)
    /\ UNCHANGED tr_engine

NextTracker == TrackerAddCube \/ SwitchCube \/ TrackerAddUser \/ RegisterImageSet

SpecTracker == InitTracker /\ [][NextTracker]_vars

\* The file on disk holds the configuration of the last save, and loads
\* back as it.
TrackerFileIsLastSave ==
    /\ cm_file = SavedFile(cm_file, cm_saved)
    /\ load(cm_file.fmt, cm_file).ok

\* C29 as stated: once the tracker is initialized, under any sequence of
\* add_cube, switch_cube, add_user and register_image_set calls, the active
\* cube is a cube of the configuration and the recognition engine uses that
\* cube's database path.  add_cube makes the new cube the active one when
\* the active cube's name is empty, and leaves the engine as it is.
C29_EngineUsesActiveCube ==
    /\ cm_config.active_cube.v \in DOMAIN cm_config.cubes
    /\ tr_engine = cm_config.cubes[cm_config.active_cube.v].database_path

\* The second half of C29: a switch_cube to an unknown cube raises
\* ValueError and leaves the active cube, the engine and the file as they
\* were.
C29_UnknownSwitchRaises ==
    [][(/\ cm_last'.op = "switch_cube"
        /\ cm_last'.name \notin DOMAIN cm_config.cubes) =>
           /\ cm_last'.error = "ValueError"
           /\ cm_config' = cm_config
           /\ tr_engine' = tr_engine
           /\ cm_file' = cm_file]_vars

\* C30 as stated: a register_image_set that fails because the image
\* directory does not exist raises ValueError and leaves the configuration
\* in memory and the one saved on disk as they were before the call.  The
\* owner and the image set are added before the directory is looked at.
C30_FailedRegistrationChangesNothing ==
    [][(/\ cm_last'.op = "register_image_set"
        /\ ~cm_last'.dir_exists) =>
           /\ cm_last'.error = "ValueError"
           /\ cm_config' = cm_config
           /\ cm_saved' = cm_saved
           /\ cm_file' = cm_file]_vars

\* The part of C30 that holds: the failed call raises ValueError, changes
\* no card count and leaves every cube and the engine as they were.
C30_FailedRegistrationRaises ==
    [][(/\ cm_last'.op = "register_image_set"
        /\ ~cm_last'.dir_exists) =>
           /\ cm_last'.error = "ValueError"
           /\ cm_config'.cubes = cm_config.cubes
           /\ cm_config'.active_cube = cm_config.active_cube
           /\ \A u \in DOMAIN cm_config.users :
                  cm_config'.users[u].total_cards
                      = cm_config.users[u].total_cards]_vars
=============================================================================
